---- MODULE Spec2Model ----
(***************************************************************************)
(* Push-up form analyzer: repetition segmentation (rep_splitter.py), the   *)
(* scoring engine (dtw_engine.py) and the analysis pipeline (server.py).   *)
(*                                                                         *)
(* Angles are whole degrees.  Frame indices are 0-based as in the Python   *)
(* source; At(x, i) reads element i of a sequence.                         *)
(***************************************************************************)
EXTENDS Integers, Sequences, FiniteSets, TLC

VARIABLES
    pc,               \* position in the function being run
    \* segment_reps
    elbow_angles,     \* its argument
    passes,           \* calls of _detect_reps_by_valleys made so far
    primary,          \* slices found by pass 1
    reps,             \* slices returned
    \* the scoring functions
    user_rep_angles,  \* the repetition scored
    golden_library,   \* the reference library, in iteration order
    outcome,          \* what the called scoring function returned
    \* run_analysis_pipeline
    video,            \* the frames extract_frames yields
    detector,         \* "none", "open" or "closed"
    raw_elbow_angles,
    raw_hip_angles,
    segmented_reps,
    all_scores,
    all_form_errors,
    rep_details,
    hip_cursor,
    feedback_calls,   \* calls of generate_coach_feedback
    response,         \* the dict returned
    \* analyze_video
    upload,           \* the uploaded file: its name and its frames
    upload_dir,       \* the paths of the files in the upload directory
    background_tasks  \* the tasks registered to run after the response

segVars == <<elbow_angles, passes, primary, reps>>
scoreVars == <<user_rep_angles, outcome>>
pipeVars == <<video, detector, raw_elbow_angles, raw_hip_angles,
              segmented_reps, all_scores, all_form_errors, rep_details,
              hip_cursor, feedback_calls, response>>

endpointVars == <<upload, upload_dir, background_tasks>>

vars == <<pc, segVars, scoreVars, golden_library, pipeVars, endpointVars>>

----------------------------------------------------------------------------
(* Bounds of the explored inputs *)

MaxReps == 3        \* dips in an elbow series given to segment_reps
MaxFlat == 12       \* length of a constant elbow series
MaxRepLen == 2      \* frames of a repetition given to a scoring function
MaxRefLen == 1      \* frames of a reference repetition
MaxPipeReps == 3    \* dips in the elbow series of a video
MaxScores == 5      \* per-repetition scores given to the overall score
MaxGap == 2         \* length of a run of non-finite samples

----------------------------------------------------------------------------
(* rep_splitter.py: tuning constants *)

VALLEY_DEPTH_THRESHOLD == 165
LOCKOUT_MIN_ANGLE == 145
VALLEY_PROMINENCE == 8
VALLEY_MIN_DISTANCE == 10
FALLBACK_VALLEY_DEPTH_THRESHOLD == 175
FALLBACK_LOCKOUT_MIN_ANGLE == 120
FALLBACK_VALLEY_PROMINENCE == 4
FALLBACK_VALLEY_MIN_DISTANCE == 6

----------------------------------------------------------------------------
(* Sequence helpers *)

At(x, i) == x[i + 1]

SetMin(S) == CHOOSE m \in S : \A o \in S : m <= o
SetMax(S) == CHOOSE m \in S : \A o \in S : m >= o

SeqMin(x) == SetMin({x[k] : k \in DOMAIN x})
SeqMax(x) == SetMax({x[k] : k \in DOMAIN x})

\* Python slice x[start:end] with 0 <= start <= end <= len(x)
Slice(x, start, end) == SubSeq(x, start + 1, end)

\* the elements of a set of integers in increasing order
RECURSIVE SortedSeq(_)
SortedSeq(S) ==
    IF S = {} THEN <<>>
    ELSE LET m == SetMin(S) IN <<m>> \o SortedSeq(S \ {m})

Negate(x) == [k \in DOMAIN x |-> 0 - x[k]]

----------------------------------------------------------------------------
(* scipy.signal.find_peaks(x, prominence=, distance=) as the segmenter     *)
(* calls it: local maxima, then the distance filter, then the prominence   *)
(* filter.                                                                 *)

\* first index from i on that is the last sample or differs from value v
RECURSIVE plateau_end(_, _, _)
plateau_end(x, i, v) ==
    IF i < Len(x) - 1 /\ At(x, i) = v THEN plateau_end(x, i + 1, v) ELSE i

\* _local_maxima_1d: the midpoint of every sample or flat run that is
\* strictly higher than both neighbours; the two end samples never count
RECURSIVE local_maxima_1d(_, _)
local_maxima_1d(x, i) ==
    IF i >= Len(x) - 1 THEN <<>>
    ELSE IF At(x, i - 1) < At(x, i)
         THEN LET i_ahead == plateau_end(x, i + 1, At(x, i))
              IN  IF At(x, i_ahead) < At(x, i)
                  THEN <<(i + (i_ahead - 1)) \div 2>>
                           \o local_maxima_1d(x, i_ahead + 1)
                  ELSE local_maxima_1d(x, i + 1)
         ELSE local_maxima_1d(x, i + 1)

\* _select_by_peak_distance: peaks are visited from the highest priority
\* down (equal priorities: the later peak first); a kept peak removes
\* every other peak closer than distance
RECURSIVE select_by_peak_distance(_, _, _, _, _)
select_by_peak_distance(peaks, priority, distance, todo, keep) ==
    IF todo = {} THEN keep
    ELSE LET j == CHOOSE a \in todo : \A b \in todo :
                      \/ priority[b] < priority[a]
                      \/ priority[b] = priority[a] /\ b <= a
         IN  IF j \notin keep
             THEN select_by_peak_distance(peaks, priority, distance,
                                          todo \ {j}, keep)
             ELSE select_by_peak_distance(peaks, priority, distance,
                      todo \ {j},
                      keep \ {k \in DOMAIN peaks :
                                /\ k # j
                                /\ peaks[k] - peaks[j] < distance
                                /\ peaks[j] - peaks[k] < distance})

\* _peak_prominences: height of the peak above the higher of the two
\* bases, each base the lowest sample between the peak and the nearest
\* strictly higher sample (or the end of the signal) on that side
peak_prominence(x, peak) ==
    LET n      == Len(x)
        higherL == {i \in 0..(peak - 1) : At(x, i) > At(x, peak)}
        higherR == {i \in (peak + 1)..(n - 1) : At(x, i) > At(x, peak)}
        lo     == IF higherL = {} THEN 0 ELSE SetMax(higherL) + 1
        hi     == IF higherR = {} THEN n - 1 ELSE SetMin(higherR) - 1
        left_min  == SetMin({At(x, i) : i \in lo..peak})
        right_min == SetMin({At(x, i) : i \in peak..hi})
    IN  At(x, peak) - (IF left_min > right_min THEN left_min ELSE right_min)

find_peaks(x, prominence, distance) ==
    LET peaks    == local_maxima_1d(x, 1)
        priority == [k \in DOMAIN peaks |-> At(x, peaks[k])]
        keep     == select_by_peak_distance(peaks, priority, distance,
                                            DOMAIN peaks, DOMAIN peaks)
        spaced   == {peaks[k] : k \in keep}
    IN  SortedSeq({p \in spaced : peak_prominence(x, p) >= prominence})

----------------------------------------------------------------------------
(* rep_splitter.py: _detect_reps_by_valleys *)

\* a valley filter that keeps every prominent valley, whatever its depth
deep_valleys_of_any(angles, depth_threshold, prominence, min_distance) ==
    find_peaks(Negate(angles), prominence, min_distance)

\* lines 199-202: the valleys at or below the depth threshold
deep_valleys_of(angles, depth_threshold, prominence, min_distance) ==
    SelectSeq(find_peaks(Negate(angles), prominence, min_distance),
              LAMBDA idx : At(angles, idx) <= depth_threshold)

\* boundaries whose last slice stops right after the last valley
slice_boundaries_to_valley(deep_valleys, n) ==
    <<0>> \o [i \in 1..(Len(deep_valleys) - 1) |->
                 (deep_valleys[i] + deep_valleys[i + 1]) \div 2]
          \o <<deep_valleys[Len(deep_valleys)] + 1>>

\* lines 219-223: 0, the midpoints of consecutive valleys, n
slice_boundaries(deep_valleys, n) ==
    <<0>> \o [i \in 1..(Len(deep_valleys) - 1) |->
                 (deep_valleys[i] + deep_valleys[i + 1]) \div 2]
          \o <<n>>

\* a candidate slice that takes its end boundary frame as well
candidate_slice_inclusive(angles, deep_valleys, i) ==
    LET boundaries == slice_boundaries(deep_valleys, Len(angles))
        end == IF boundaries[i + 1] < Len(angles)
               THEN boundaries[i + 1] + 1 ELSE Len(angles)
    IN  [start |-> boundaries[i], end |-> end,
         vals  |-> Slice(angles, boundaries[i], end)]

\* lines 225-230: the candidate slice of valley number i (1-based
\* position in the list)
candidate_slice(angles, deep_valleys, i) ==
    LET boundaries == slice_boundaries(deep_valleys, Len(angles))
    IN  [start |-> boundaries[i], end |-> boundaries[i + 1],
         vals  |-> Slice(angles, boundaries[i], boundaries[i + 1])]

\* a validation that also drops every candidate longer than 15 frames
valid_reps_of_capped(angles, deep_valleys, lockout_min_angle) ==
    LET candidates == [i \in DOMAIN deep_valleys |->
                          candidate_slice(angles, deep_valleys, i)]
    IN  SelectSeq(candidates,
                  LAMBDA c : /\ SeqMax(c.vals) >= lockout_min_angle
                             /\ c.end - c.start <= 15)

\* lines 225-243: the candidates whose maximum reaches the lockout angle
valid_reps_of(angles, deep_valleys, lockout_min_angle) ==
    LET candidates == [i \in DOMAIN deep_valleys |->
                          candidate_slice(angles, deep_valleys, i)]
    IN  SelectSeq(candidates,
                  LAMBDA c : SeqMax(c.vals) >= lockout_min_angle)

\* a detector that, finding no deep valley, takes the whole series as one
\* candidate
detect_reps_whole_clip(angles, depth_threshold, lockout, prominence, min_distance) ==
    LET deep_valleys == deep_valleys_of(angles, depth_threshold, prominence,
                                        min_distance)
    IN  IF deep_valleys = <<>>
        THEN IF SeqMax(angles) >= lockout
             THEN <<[start |-> 0, end |-> Len(angles), vals |-> angles]>>
             ELSE <<>>
        ELSE valid_reps_of(angles, deep_valleys, lockout)

\* lines 165-243
detect_reps_by_valleys(angles, depth_threshold, lockout, prominence, min_distance) ==
    LET deep_valleys == deep_valleys_of(angles, depth_threshold, prominence,
                                        min_distance)
    IN  IF deep_valleys = <<>> THEN <<>>
        ELSE valid_reps_of(angles, deep_valleys, lockout)

----------------------------------------------------------------------------
(* Numbers of the scoring engine.  A DTW distance is the exact fraction    *)
(* num/den (total alignment cost over path length); den = 0 stands for     *)
(* float("inf").  NaN stands for a non-finite sample of a series.          *)

NaN == 100000

IsFinite(a) == a # NaN
AllFinite(x) == \A k \in DOMAIN x : IsFinite(x[k])

Frac(n, d) == [num |-> n, den |-> d]
INF == Frac(1, 0)

\* a < b on distances
FracLess(a, b) ==
    IF a.den = 0 THEN FALSE
    ELSE IF b.den = 0 THEN TRUE
    ELSE a.num * b.den < b.num * a.den

FracLeq(a, b) == ~FracLess(b, a)

Abs(a) == IF a < 0 THEN 0 - a ELSE a

\* Python round(p / q) for p >= 0, q > 0: halves go to the even neighbour
RoundHalfEven(p, q) ==
    LET f == p \div q
        r == p % q
    IN  IF 2 * r < q THEN f
        ELSE IF 2 * r > q THEN f + 1
        ELSE IF f % 2 = 0 THEN f ELSE f + 1

Clamp100(v) == IF v < 0 THEN 0 ELSE IF v > 100 THEN 100 ELSE v

----------------------------------------------------------------------------
(* Python floats.  A float is an IEEE-754 double: every result of + - * /  *)
(* is the exact result rounded to 53 significant bits, ties to the even    *)
(* neighbour.  A non-negative double is kept here as the whole number of   *)
(* units of 2^-90 it is worth, written in limbs of 15 bits, lowest limb    *)
(* first.  Every double the scoring code computes from whole-degree angles *)
(* is 0 or at least 2^-37, so it is a whole number of these units.         *)

LimbBase == 32768
FracLimbs == 6

RECURSIVE Pow2(_)
Pow2(n) == IF n = 0 THEN 1 ELSE 2 * Pow2(n - 1)

Limb(x, i) == IF i \in DOMAIN x THEN x[i] ELSE 0

\* carries of a sequence of numbers below 2^31 folded into limbs
RECURSIVE BigCarry(_, _, _)
BigCarry(x, i, carry) ==
    IF i > Len(x)
    THEN IF carry = 0 THEN <<>>
         ELSE <<carry % LimbBase>> \o BigCarry(x, i, carry \div LimbBase)
    ELSE <<(x[i] + carry) % LimbBase>>
             \o BigCarry(x, i + 1, (x[i] + carry) \div LimbBase)

BigAdd(x, y) ==
    BigCarry([i \in 1..(IF Len(x) > Len(y) THEN Len(x) ELSE Len(y)) |->
                 Limb(x, i) + Limb(y, i)], 1, 0)

\* x - y for x >= y
RECURSIVE BigSub(_, _, _, _)
BigSub(x, y, i, borrow) ==
    IF i > Len(x) THEN <<>>
    ELSE LET t == x[i] - Limb(y, i) - borrow
         IN  IF t < 0 THEN <<t + LimbBase>> \o BigSub(x, y, i + 1, 1)
             ELSE <<t>> \o BigSub(x, y, i + 1, 0)

\* x * k for 0 <= k < 2^15
BigMulSmall(x, k) == BigCarry([i \in DOMAIN x |-> x[i] * k], 1, 0)

\* x * y, limb j of y at a time from limb j on
RECURSIVE BigMul(_, _, _)
BigMul(x, y, j) ==
    IF j > Len(y) THEN <<>>
    ELSE BigAdd([i \in 1..(j - 1) |-> 0] \o BigMulSmall(x, y[j]),
                BigMul(x, y, j + 1))

\* quotient and remainder of x by d, 0 < d < 2^15, from the top limb down
RECURSIVE BigDivSmall(_, _, _, _, _)
BigDivSmall(x, d, i, rem, quot) ==
    IF i = 0 THEN [q |-> quot, r |-> rem]
    ELSE BigDivSmall(x, d, i - 1, (rem * LimbBase + x[i]) % d,
                     <<(rem * LimbBase + x[i]) \div d>> \o quot)

RECURSIVE BitsOf(_)
BitsOf(n) == IF n = 0 THEN 0 ELSE 1 + BitsOf(n \div 2)

\* the number of significant bits of x
BitLen(x) ==
    LET used == {i \in DOMAIN x : x[i] # 0}
    IN  IF used = {} THEN 0
        ELSE LET top == CHOOSE i \in used : \A j \in used : j <= i
             IN  15 * (top - 1) + BitsOf(x[top])

\* the double nearest to x, or to a little more than x when sticky:
\* x cut to its 53 highest bits, and one step up when the part cut off is
\* more than half a step, or half a step with an odd last kept bit
RoundTo53(x, sticky) ==
    IF BitLen(x) <= 53 THEN x
    ELSE LET drop == BitLen(x) - 53
             a    == drop \div 15
             b    == drop % 15
             kept == [i \in DOMAIN x |->
                         IF i <= a THEN 0
                         ELSE IF i = a + 1
                         THEN (x[i] \div Pow2(b)) * Pow2(b)
                         ELSE x[i]]
             half == IF b > 0 THEN (x[a + 1] \div Pow2(b - 1)) % 2
                     ELSE x[a] \div Pow2(14)
             rest == \/ sticky
                     \/ IF b > 0
                        THEN \/ x[a + 1] % Pow2(b - 1) # 0
                             \/ \E i \in 1..a : x[i] # 0
                        ELSE \/ x[a] % Pow2(14) # 0
                             \/ \E i \in 1..(a - 1) : x[i] # 0
             odd  == (x[a + 1] \div Pow2(b)) % 2 = 1
         IN  IF half = 1 /\ (rest \/ odd)
             THEN BigAdd(kept, [i \in 1..(a + 1) |->
                                   IF i = a + 1 THEN Pow2(b) ELSE 0])
             ELSE kept

\* float(n) for a whole number 0 <= n < 2^30
FloatOf(n) ==
    [i \in 1..FracLimbs |-> 0] \o <<n % LimbBase, n \div LimbBase>>

FloatAdd(x, y) == RoundTo53(BigAdd(x, y), FALSE)

\* x - y for x >= y
FloatSub(x, y) == RoundTo53(BigSub(x, y, 1, 0), FALSE)

\* x * k and x / d for a whole number 0 < k, d < 2^15
FloatTimes(x, k) == RoundTo53(BigMulSmall(x, k), FALSE)

FloatOver(x, d) ==
    LET qr == BigDivSmall(x, d, Len(x), 0, <<>>)
    IN  RoundTo53(qr.q, qr.r # 0)

\* x * y for two doubles
FloatMul(x, y) ==
    LET p == BigMul(x, y, 1)
    IN  RoundTo53([i \in 1..(Len(p) - FracLimbs) |-> p[i + FracLimbs]],
                  \E i \in 1..FracLimbs : Limb(p, i) # 0)

\* x < y
FloatLess(x, y) ==
    \E i \in 1..(IF Len(x) > Len(y) THEN Len(x) ELSE Len(y)) :
        /\ Limb(x, i) < Limb(y, i)
        /\ \A j \in (i + 1)..(IF Len(x) > Len(y) THEN Len(x) ELSE Len(y)) :
               Limb(x, j) = Limb(y, j)

\* int(x): the whole part
FloatInt(x) == Limb(x, FracLimbs + 1) + LimbBase * Limb(x, FracLimbs + 2)

\* round(x): the nearest whole number, halves to the even one
FloatRound(x) ==
    LET whole == FloatInt(x)
        half  == Limb(x, FracLimbs) \div Pow2(14)
        rest  == \/ Limb(x, FracLimbs) % Pow2(14) # 0
                 \/ \E i \in 1..(FracLimbs - 1) : Limb(x, i) # 0
    IN  IF half = 1 /\ (rest \/ whole % 2 = 1) THEN whole + 1 ELSE whole

----------------------------------------------------------------------------
(* dtw_engine.py: constants *)

PENALTY_DISTANCE == 9999
DTW_MAX_DIST_DEGREES == 20

\* DTW_WEIGHT and HEURISTIC_WEIGHT, in hundredths
DTW_WEIGHT_PCT == 50
HEURISTIC_WEIGHT_PCT == 50

----------------------------------------------------------------------------
(* fastdtw(u, g, dist=euclidean) with its default radius 1, for series of  *)
(* one-element vectors: the cost of aligning two frames is |a - b|.        *)

\* an alignment cost that may be float("inf"), written -1
CostInf == 0 - 1
CostAdd(c, dt) == IF c = CostInf THEN CostInf ELSE c + dt
CostLess(a, b) == IF a = CostInf THEN FALSE
                  ELSE IF b = CostInf THEN TRUE ELSE a < b

\* A window is kept row by row: for each frame i of x the unbroken run
\* lo..hi of frames of y it may be aligned with, visited in row-major
\* order as __dtw does.
full_window(len_x, len_y) == [i \in 1..len_x |-> [lo |-> 0, hi |-> len_y - 1]]

NoCell == [cost |-> CostInf, pi |-> 0, pj |-> 0]

\* the cheapest of the three predecessors; on equal costs the first of
\* (i-1, j), (i, j-1), (i-1, j-1) wins (Python's min with a key)
dtw_cell(i, j, dt, up, left, diag) ==
    IF CostLess(diag.cost, up.cost) /\ CostLess(diag.cost, left.cost)
    THEN [cost |-> CostAdd(diag.cost, dt), pi |-> i - 1, pj |-> j - 1]
    ELSE IF CostLess(left.cost, up.cost)
    THEN [cost |-> CostAdd(left.cost, dt), pi |-> i, pj |-> j - 1]
    ELSE [cost |-> CostAdd(up.cost, dt), pi |-> i - 1, pj |-> j]

\* __dtw, the filling loop over the cells j..hi of row i
RECURSIVE dtw_row(_, _, _, _, _, _, _)
dtw_row(xi, y, i, j, hi, above, row) ==
    IF j > hi THEN row
    ELSE dtw_row(xi, y, i, j + 1, hi, above,
             [row EXCEPT ![j] = dtw_cell(i, j, Abs(xi - y[j]),
                                         above[j], row[j - 1],
                                         above[j - 1])])

\* __dtw, the filling loop over the rows: D[i + 1][j] is the entry of
\* cell (i, j), both counted from 1; row 0 and column 0 hold the start
RECURSIVE dtw_rows(_, _, _, _, _)
dtw_rows(x, y, window, i, D) ==
    IF i > Len(x) THEN D
    ELSE dtw_rows(x, y, window, i + 1,
             Append(D, dtw_row(x[i], y, i, window[i].lo + 1,
                               window[i].hi + 1, D[i],
                               [j \in 0..Len(y) |-> NoCell])))

\* __dtw, the backtracking loop: the path from (len_x, len_y) to (0, 0),
\* first cell first, in 0-based frame indices
RECURSIVE dtw_backtrack(_, _, _, _)
dtw_backtrack(D, i, j, path) ==
    IF i = 0 /\ j = 0 THEN path
    ELSE dtw_backtrack(D, D[i + 1][j].pi, D[i + 1][j].pj,
                       <<<<i - 1, j - 1>>>> \o path)

\* __dtw, its return value: the cost of the last cell and the path
dtw_result(D, len_x, len_y) ==
    [distance |-> D[len_x + 1][len_y].cost,
     path     |-> dtw_backtrack(D, len_x, len_y, <<>>)]

dtw_windowed(x, y, window) ==
    dtw_result(dtw_rows(x, y, window, 1,
                   <<[j \in 0..Len(y) |->
                        IF j = 0 THEN [cost |-> 0, pi |-> 0, pj |-> 0]
                        ELSE NoCell]>>),
               Len(x), Len(y))

\* __reduce_by_half keeps the mean of each pair of frames; the sums kept
\* here are twice those means in both series, which leaves every
\* comparison of alignment costs, and so the path, unchanged
reduce_by_half(x) ==
    [k \in 1..(Len(x) \div 2) |-> x[2 * k - 1] + x[2 * k]]

\* __expand_window: every path cell grown by radius, each projected on
\* its four finer cells; per row the first unbroken run of such cells
\* starting no earlier than the run of the row before
expand_row(cells, len_y, i, start_j) ==
    [lo |-> SetMin({j \in start_j..(len_y - 1) : <<i, j>> \in cells}),
     hi |-> SetMin({j \in start_j..(len_y - 1) :
                       /\ <<i, j>> \in cells
                       /\ (j = len_y - 1 \/ <<i, j + 1>> \notin cells)})]

RECURSIVE expand_rows(_, _, _, _)
expand_rows(cells, len_x, len_y, rows) ==
    IF Len(rows) >= len_x THEN rows
    ELSE expand_rows(cells, len_x, len_y,
             Append(rows, expand_row(cells, len_y, Len(rows),
                        IF rows = <<>> THEN 0 ELSE rows[Len(rows)].lo)))

expand_window(path, len_x, len_y, radius) ==
    expand_rows({<<2 * (path[k][1] + a) + c, 2 * (path[k][2] + b) + d>> :
                    k \in DOMAIN path,
                    a \in (0 - radius)..radius, b \in (0 - radius)..radius,
                    c \in 0..1, d \in 0..1},
                len_x, len_y, <<>>)

\* __fastdtw: series shorter than radius + 2 are aligned exactly; longer
\* ones inside the window grown from the path of the halved series
RECURSIVE fastdtw(_, _)
fastdtw_window(x, y) ==
    IF Len(x) < 3 \/ Len(y) < 3
    THEN full_window(Len(x), Len(y))
    ELSE expand_window(fastdtw(reduce_by_half(x), reduce_by_half(y)).path,
                       Len(x), Len(y), 1)

fastdtw(x, y) == dtw_windowed(x, y, fastdtw_window(x, y))

----------------------------------------------------------------------------
(* dtw_engine.py: the scoring functions *)

\* line 85: float(distance) / len(path)
mean_dist(r) == Frac(r.distance, Len(r.path))

\* a distance to the second series played backwards
calculate_dtw_distance_backwards(user_angles, golden_angles) ==
    IF user_angles = <<>> \/ golden_angles = <<>>
    THEN Frac(PENALTY_DISTANCE, 1)
    ELSE IF ~AllFinite(user_angles) \/ ~AllFinite(golden_angles)
    THEN Frac(PENALTY_DISTANCE, 1)
    ELSE mean_dist(fastdtw(user_angles,
             [k \in DOMAIN golden_angles |->
                 golden_angles[Len(golden_angles) + 1 - k]]))

\* a distance that is the total alignment cost
calculate_dtw_distance_total(user_angles, golden_angles) ==
    IF user_angles = <<>> \/ golden_angles = <<>>
    THEN Frac(PENALTY_DISTANCE, 1)
    ELSE IF ~AllFinite(user_angles) \/ ~AllFinite(golden_angles)
    THEN Frac(PENALTY_DISTANCE, 1)
    ELSE Frac(fastdtw(user_angles, golden_angles).distance, 1)

\* lines 74-90: an empty or non-finite series costs the penalty
calculate_dtw_distance(user_angles, golden_angles) ==
    IF user_angles = <<>> \/ golden_angles = <<>>
    THEN Frac(PENALTY_DISTANCE, 1)
    ELSE IF ~AllFinite(user_angles) \/ ~AllFinite(golden_angles)
    THEN Frac(PENALTY_DISTANCE, 1)
    ELSE mean_dist(fastdtw(user_angles, golden_angles))

\* a form score without the clamp to 0..100
calculate_form_score_unclamped(dtw_distance, max_acceptable_distance) ==
    IF max_acceptable_distance <= 0 THEN 0
    ELSE IF dtw_distance.num <= 0 THEN 100
    ELSE LET full == dtw_distance.den * max_acceptable_distance
         IN  IF dtw_distance.num >= full
             THEN 0 - ((100 * (dtw_distance.num - full)) \div full)
             ELSE (100 * (full - dtw_distance.num)) \div full

\* line 109: dtw_distance / max_acceptable_distance, the distance being
\* the double float(distance) / len(path)
form_ratio(dtw_distance, max_acceptable_distance) ==
    FloatOver(FloatOver(FloatOf(dtw_distance.num), dtw_distance.den),
              max_acceptable_distance)

\* a form score that grows with the distance: 100 * d / max
calculate_form_score_rising(dtw_distance, max_acceptable_distance) ==
    IF max_acceptable_distance <= 0 THEN 0
    ELSE IF dtw_distance.num <= 0 THEN 0
    ELSE LET q == form_ratio(dtw_distance, max_acceptable_distance)
         IN  IF ~FloatLess(q, FloatOf(1)) THEN 100
             ELSE Clamp100(FloatInt(FloatTimes(q, 100)))

\* a form score that tests the distance before the maximum
calculate_form_score_distance_first(dtw_distance, max_acceptable_distance) ==
    IF dtw_distance.num <= 0 THEN 100
    ELSE IF max_acceptable_distance <= 0 THEN 0
    ELSE LET q == form_ratio(dtw_distance, max_acceptable_distance)
         IN  IF ~FloatLess(q, FloatOf(1)) THEN 0
             ELSE Clamp100(FloatInt(
                      FloatTimes(FloatSub(FloatOf(1), q), 100)))

\* lines 106-111: raw = 100.0 * (1.0 - d / max) in doubles, cut towards
\* zero by int() and clamped.  A distance of at least the maximum makes
\* the ratio at least 1 in doubles too, and a ratio of 1 or more gives
\* raw <= 0, hence 0.
calculate_form_score(dtw_distance, max_acceptable_distance) ==
    IF max_acceptable_distance <= 0 THEN 0
    ELSE IF dtw_distance.num <= 0 THEN 100
    ELSE IF dtw_distance.num >= dtw_distance.den * max_acceptable_distance
    THEN 0
    ELSE LET q == form_ratio(dtw_distance, max_acceptable_distance)
         IN  IF ~FloatLess(q, FloatOf(1)) THEN 0
             ELSE Clamp100(FloatInt(
                      FloatTimes(FloatSub(FloatOf(1), q), 100)))

\* Python's min() and max() of a list: a NaN that is not the first
\* element never replaces the running value, a NaN first element stays
RECURSIVE py_min_from(_, _, _)
py_min_from(x, k, m) ==
    IF k > Len(x) THEN m
    ELSE py_min_from(x, k + 1,
             IF IsFinite(x[k]) /\ IsFinite(m) /\ x[k] < m THEN x[k] ELSE m)

RECURSIVE py_max_from(_, _, _)
py_max_from(x, k, m) ==
    IF k > Len(x) THEN m
    ELSE py_max_from(x, k + 1,
             IF IsFinite(x[k]) /\ IsFinite(m) /\ x[k] > m THEN x[k] ELSE m)

py_min(x) == py_min_from(x, 2, x[1])
py_max(x) == py_max_from(x, 2, x[1])

\* line 153: depth_pct = 1.0 - (min_angle - 90.0) / 50.0
depth_pct(min_angle) ==
    FloatSub(FloatOf(1), FloatOver(FloatOf(min_angle - 90), 50))

\* lines 148-158: the points the depth adds
depth_points(min_angle) ==
    IF min_angle <= 90 THEN FloatOf(50)
    ELSE IF min_angle >= 140 THEN FloatOf(0)
    ELSE FloatTimes(depth_pct(min_angle), 50)

\* a depth label that is also given at exactly half credit
depth_error_at_half(min_angle) ==
    IF min_angle <= 90 THEN <<>>
    ELSE IF min_angle >= 140 THEN <<"insufficient depth">>
    ELSE IF ~FloatLess(FloatOver(FloatOf(1), 2), depth_pct(min_angle))
    THEN <<"insufficient depth">>
    ELSE <<>>

depth_error(min_angle) ==
    IF min_angle <= 90 THEN <<>>
    ELSE IF min_angle >= 140 THEN <<"insufficient depth">>
    ELSE IF FloatLess(depth_pct(min_angle), FloatOver(FloatOf(1), 2))
    THEN <<"insufficient depth">>
    ELSE <<>>

\* line 166: lock_pct = (max_angle - 130.0) / 30.0
lock_pct(max_angle) == FloatOver(FloatOf(max_angle - 130), 30)

\* lines 160-170: the points the lockout adds
lockout_points(max_angle) ==
    IF max_angle >= 160 THEN FloatOf(30)
    ELSE IF max_angle <= 130 THEN FloatOf(0)
    ELSE FloatTimes(lock_pct(max_angle), 30)

lockout_error(max_angle) ==
    IF max_angle >= 160 THEN <<>>
    ELSE IF max_angle <= 130 THEN <<"incomplete lockout">>
    ELSE IF FloatLess(lock_pct(max_angle), FloatOver(FloatOf(1), 2))
    THEN <<"incomplete lockout">>
    ELSE <<>>

\* lines 172-180: the points the range of motion adds
arc_points(arc) ==
    IF arc >= 70 THEN FloatOf(20)
    ELSE IF arc <= 20 THEN FloatOf(0)
    ELSE FloatTimes(FloatOver(FloatOf(arc - 20), 50), 20)

\* a range-of-motion component that adds no label
arc_error_silent(arc) == <<>>

arc_error(arc) ==
    IF arc >= 70 THEN <<>>
    ELSE IF arc <= 20 THEN <<"very limited range of motion">>
    ELSE <<>>

\* lines 146-180: points, a double, grows from 0.0 one component at a time
heuristic_points(min_angle, max_angle) ==
    FloatAdd(FloatAdd(depth_points(min_angle), lockout_points(max_angle)),
             arc_points(max_angle - min_angle))

\* lines 146-187 for a finite minimum and maximum
heuristic_result(min_angle, max_angle) ==
    [raised |-> FALSE,
     score  |-> Clamp100(FloatInt(heuristic_points(min_angle, max_angle))),
     errors |-> depth_error(min_angle)
                  \o lockout_error(max_angle)
                  \o arc_error(max_angle - min_angle)]

\* the whole-degree angles held by the repetitions that are scored
ScoredAngles ==
    {85, 90, 114, 115, 116, 118, 130, 140, 144, 145, 146, 150, 160, 170, 180}

\* heuristic_result of each of the given pairs of a minimum and a maximum
RECURSIVE heuristic_results_on(_)
heuristic_results_on(pairs) ==
    LET p == CHOOSE q \in pairs : TRUE
        here == p :> heuristic_result(p[1], p[2])
    IN  IF pairs = {p} THEN here
        ELSE here @@ heuristic_results_on(pairs \ {p})

\* heuristic_result of every minimum and maximum among the scored angles,
\* worked out once, one minimum at a time
RECURSIVE heuristic_results_from(_)
heuristic_results_from(min_angles) ==
    LET a == CHOOSE x \in min_angles : TRUE
        row == heuristic_results_on(
                   {a} \X {m \in ScoredAngles : a <= m})
    IN  IF min_angles = {a} THEN row
        ELSE row @@ heuristic_results_from(min_angles \ {a})

heuristic_results == heuristic_results_from(ScoredAngles)

\* lines 138-187.  With a NaN first frame min and max are NaN, every
\* comparison is false, points is NaN and int(points) raises ValueError.
heuristic_of(min_angle, max_angle) ==
    IF ~IsFinite(min_angle) \/ ~IsFinite(max_angle)
    THEN [raised |-> TRUE, score |-> 0, errors |-> <<>>]
    ELSE heuristic_results[<<min_angle, max_angle>>]

score_rep_heuristic(rep_elbow_angles) ==
    IF rep_elbow_angles = <<>>
    THEN [raised |-> FALSE, score |-> 0, errors |-> <<"no angle data">>]
    ELSE heuristic_of(py_min(rep_elbow_angles), py_max(rep_elbow_angles))

\* line 210: round(DTW_WEIGHT * dtw_score + HEURISTIC_WEIGHT * h_score)
blend(dtw_score, h_score) ==
    Clamp100(RoundHalfEven(DTW_WEIGHT_PCT * dtw_score
                             + HEURISTIC_WEIGHT_PCT * h_score, 100))

\* lines 206-215: the form score is taken with the default scale
blended_of(dtw_score, h) ==
    IF h.raised THEN h
    ELSE [raised |-> FALSE, score |-> blend(dtw_score, h.score),
          errors |-> h.errors]

\* a blended score whose form score is taken with the scale the server
\* passes to evaluate_against_library
score_rep_blended_server_scale(rep_angles, golden_angles) ==
    blended_of(calculate_form_score(
                   calculate_dtw_distance(rep_angles, golden_angles), 1),
               score_rep_heuristic(rep_angles))

score_rep_blended(rep_angles, golden_angles) ==
    blended_of(calculate_form_score(
                   calculate_dtw_distance(rep_angles, golden_angles),
                   DTW_MAX_DIST_DEGREES),
               score_rep_heuristic(rep_angles))

\* A library is the sequence of its (name, angles) items in the dict's
\* iteration order.
LibraryGet(library, name) ==
    LET at == CHOOSE k \in DOMAIN library : library[k].name = name
    IN  library[at].angles

\* a loop turn that takes every non-empty reference as the best so far
closer_of_latest(best, ref, dist) ==
    IF ref.angles # <<>>
    THEN [name |-> ref.name, distance |-> dist]
    ELSE best

\* a loop turn that keeps the reference with the largest distance
closer_of_farther(best, ref, dist) ==
    IF ref.angles # <<>>
         /\ (best.distance.den = 0 \/ FracLess(best.distance, dist))
    THEN [name |-> ref.name, distance |-> dist]
    ELSE best

\* lines 251-257, one turn of the loop: an empty reference is skipped,
\* a strictly smaller distance replaces the best so far
closer_of(best, ref, dist) ==
    IF ref.angles # <<>> /\ FracLess(dist, best.distance)
    THEN [name |-> ref.name, distance |-> dist]
    ELSE best

\* lines 246-257: the first reference with the strictly smallest distance
RECURSIVE closest_reference(_, _, _, _)
closest_reference(rep_angles, library, k, best) ==
    IF k > Len(library) THEN best
    ELSE closest_reference(rep_angles, library, k + 1,
             closer_of(best, library[k],
                       calculate_dtw_distance(rep_angles,
                                              library[k].angles)))

\* lines 265-267: the blended score against the best reference
matched_of(best, blended) ==
    [raised |-> blended.raised, name |-> best.name,
     distance |-> best.distance, score |-> blended.score]

\* an evaluation without the early return for an empty library
evaluation_of_unchecked_library(rep_angles, library, best, heuristic) ==
    IF rep_angles = <<>>
    THEN [raised |-> FALSE, name |-> "no_reference",
          distance |-> Frac(PENALTY_DISTANCE, 1), score |-> 0]
    ELSE IF best.name = "no_reference" \/ best.distance.den = 0
    THEN [raised |-> heuristic.raised, name |-> "no_reference",
          distance |-> Frac(PENALTY_DISTANCE, 1),
          score |-> heuristic.score]
    ELSE matched_of(best, score_rep_blended(rep_angles,
                              LibraryGet(library, best.name)))

\* lines 237-267, given the closest reference and the heuristic result
evaluation_of(rep_angles, library, best, heuristic) ==
    IF rep_angles = <<>>
    THEN [raised |-> FALSE, name |-> "no_reference",
          distance |-> Frac(PENALTY_DISTANCE, 1), score |-> 0]
    ELSE IF library = <<>>
    THEN [raised |-> heuristic.raised, name |-> "heuristic",
          distance |-> Frac(0, 1), score |-> heuristic.score]
    ELSE IF best.name = "no_reference" \/ best.distance.den = 0
    THEN [raised |-> heuristic.raised, name |-> "no_reference",
          distance |-> Frac(PENALTY_DISTANCE, 1),
          score |-> heuristic.score]
    ELSE matched_of(best, score_rep_blended(rep_angles,
                              LibraryGet(library, best.name)))

\* max_acceptable_distance is accepted and not used
evaluate_against_library(rep_angles, library, max_acceptable_distance) ==
    evaluation_of(rep_angles, library,
                  closest_reference(rep_angles, library, 1,
                      [name |-> "no_reference", distance |-> INF]),
                  score_rep_heuristic(rep_angles))

----------------------------------------------------------------------------
(* rep_splitter.py: _interpolate_nans.  An interpolated sample is a       *)
(* fraction of a degree: the repaired series is held in units of 1/u      *)
(* degree, u a common multiple of the distances between the finite        *)
(* neighbours of the runs of non-finite samples.  np.interp rounds its    *)
(* results to doubles; the values here are the exact ones.                *)

\* line 253: the 0-based indices of the finite samples
FiniteIndices(angles) ==
    {i \in 0..(Len(angles) - 1) : IsFinite(At(angles, i))}

\* the non-finite samples that begin a run lying between two finite ones
GapStarts(angles) ==
    {i \in 1..(Len(angles) - 1) :
        /\ ~IsFinite(At(angles, i))
        /\ IsFinite(At(angles, i - 1))
        /\ \E j \in FiniteIndices(angles) : j > i}

\* the distance between the finite neighbours of the run that begins at i
GapDistance(angles, i) ==
    SetMin({j \in FiniteIndices(angles) : j > i}) - (i - 1)

RECURSIVE GapProduct(_, _)
GapProduct(angles, starts) ==
    IF starts = {} THEN 1
    ELSE LET i == SetMin(starts)
         IN  GapDistance(angles, i) * GapProduct(angles, starts \ {i})

interp_unit(angles) == GapProduct(angles, GapStarts(angles))

\* lines 259-263, np.interp at index i: the sample itself when it is
\* finite, the first or the last finite sample outside their range, the
\* point of the line through the two finite neighbours between them
interp_at(angles, i, u) ==
    LET left  == {j \in FiniteIndices(angles) : j < i}
        right == {j \in FiniteIndices(angles) : j > i}
    IN  IF IsFinite(At(angles, i)) THEN At(angles, i) * u
        ELSE IF left = {} THEN At(angles, SetMin(right)) * u
        ELSE IF right = {} THEN At(angles, SetMax(left)) * u
        ELSE LET xl == SetMax(left)
                 xr == SetMin(right)
             IN  ((At(angles, xl) * (xr - i) + At(angles, xr) * (i - xl)) * u)
                     \div (xr - xl)

\* a repair that leaves the non-finite samples as they are
interpolate_nans_none(angles, u) ==
    [k \in DOMAIN angles |->
        IF IsFinite(angles[k]) THEN angles[k] * u ELSE NaN]

\* lines 246-264
interpolate_nans(angles, u) ==
    IF FiniteIndices(angles) = {} THEN [k \in DOMAIN angles |-> 0]
    ELSE [k \in DOMAIN angles |-> interp_at(angles, k - 1, u)]

\* lines 116-119: the unit and the samples of the series the passes work on
series_unit(angles) == IF AllFinite(angles) THEN 1 ELSE interp_unit(angles)

repaired(angles) ==
    IF AllFinite(angles) THEN angles
    ELSE interpolate_nans(angles, interp_unit(angles))

\* _detect_reps_by_valleys on the repaired series, the angle thresholds
\* taken in its unit
detect_reps_repaired(angles, depth_threshold, lockout, prominence, min_distance) ==
    detect_reps_by_valleys(repaired(angles),
        depth_threshold * series_unit(angles), lockout * series_unit(angles),
        prominence * series_unit(angles), min_distance)

----------------------------------------------------------------------------
(* rep_splitter.py: segment_reps as one call *)

segment_reps(angles) ==
    IF Len(angles) < 2 THEN <<>>
    ELSE LET first == detect_reps_repaired(angles,
                          VALLEY_DEPTH_THRESHOLD, LOCKOUT_MIN_ANGLE,
                          VALLEY_PROMINENCE, VALLEY_MIN_DISTANCE)
         IN  IF first # <<>> THEN first
             ELSE detect_reps_repaired(angles,
                      FALLBACK_VALLEY_DEPTH_THRESHOLD,
                      FALLBACK_LOCKOUT_MIN_ANGLE,
                      FALLBACK_VALLEY_PROMINENCE,
                      FALLBACK_VALLEY_MIN_DISTANCE)

----------------------------------------------------------------------------
(* server.py: constants and the pure parts of run_analysis_pipeline *)

HIP_SAG_THRESHOLD == 160
\* HIP_SAG_FREQUENCY_THRESHOLD, in hundredths
HIP_SAG_FREQUENCY_PCT == 30
DTW_MAX_ACCEPTABLE_DISTANCE == 1

\* a missing landmark set or angle
None == 0 - 1

RECURSIVE SeqSum(_)
SeqSum(x) == IF x = <<>> THEN 0 ELSE x[1] + SeqSum(Tail(x))

\* lines 167-182: the angles of the frames with landmarks, each series
\* taking only the frames where its own angle could be computed
RECURSIVE angles_of(_, _)
angles_of(frames, field) ==
    IF frames = <<>> THEN <<>>
    ELSE LET f == frames[1]
         IN  (IF f.landmarks /\ f[field] # None THEN <<f[field]>> ELSE <<>>)
                 \o angles_of(Tail(frames), field)

\* lines 254-255: raw_hip_angles[hip_cursor : hip_cursor + rep_frame_count]
rep_hip_slice_of(hip_angles, cursor, rep_frame_count) ==
    LET from == IF cursor > Len(hip_angles) THEN Len(hip_angles) ELSE cursor
        to   == IF cursor + rep_frame_count > Len(hip_angles)
                THEN Len(hip_angles) ELSE cursor + rep_frame_count
    IN  Slice(hip_angles, from, to)

\* a sag flag that takes half of the frames
hip_sag_of_half(rep_hip_slice) ==
    IF rep_hip_slice = <<>> THEN FALSE
    ELSE LET sag_count == Cardinality({k \in DOMAIN rep_hip_slice :
                              rep_hip_slice[k] < HIP_SAG_THRESHOLD})
         IN  2 * sag_count >= Len(rep_hip_slice)

\* lines 261-265
hip_sag_of(rep_hip_slice) ==
    IF rep_hip_slice = <<>> THEN FALSE
    ELSE LET sag_count == Cardinality({k \in DOMAIN rep_hip_slice :
                              rep_hip_slice[k] < HIP_SAG_THRESHOLD})
         IN  100 * sag_count >= HIP_SAG_FREQUENCY_PCT * Len(rep_hip_slice)

\* line 290: sum(all_scores) / len(all_scores)
mean_score_of(scores) == FloatOver(FloatOf(SeqSum(scores)), Len(scores))

\* an overall score cut to its whole part instead of rounded
overall_score_truncated(scores) ==
    FloatInt(FloatAdd(
        FloatMul(mean_score_of(scores), FloatOver(FloatOf(7), 10)),
        FloatMul(FloatOf(SeqMin(scores)), FloatOver(FloatOf(3), 10))))

\* lines 290-292: round(mean_score * 0.7 + worst_score * 0.3) of a
\* non-empty list, 0.7 and 0.3 being the doubles nearest to 7/10 and 3/10
overall_score_of(scores) ==
    FloatRound(FloatAdd(
        FloatMul(mean_score_of(scores), FloatOver(FloatOf(7), 10)),
        FloatMul(FloatOf(SeqMin(scores)), FloatOver(FloatOf(3), 10))))

\* sorted() of a set of error labels
LabelOrder == <<"hips sagging", "incomplete lockout", "insufficient depth",
                "no angle data", "very limited range of motion">>

sorted_labels(labels) == SelectSeq(LabelOrder, LAMBDA l : l \in labels)

SeqToSet(x) == {x[k] : k \in DOMAIN x}

----------------------------------------------------------------------------
(* Inputs *)

Hold(angle, len) == [k \in 1..len |-> angle]

\* Elbow series: a first frame, then up to k dips of one frame, each
\* followed by a hold of some length at some angle.
RECURSIVE DipSeries(_, _, _, _)
DipSeries(k, tops, dips, holds) ==
    IF k = 0 THEN {Hold(t, 1) : t \in tops}
    ELSE LET shorter == DipSeries(k - 1, tops, dips, holds)
         IN  shorter \cup {s \o <<d>> \o h : s \in shorter, d \in dips,
                                            h \in holds}

TopAngles == {140, 180}
DipAngles == {90, 170}
HoldLengths == {1, 5, 9}
FlatAngles == {0, 90, 170, 180}

\* holds at a top angle, and one hold too low for either lockout threshold
Holds == {Hold(t, g) : t \in TopAngles, g \in HoldLengths} \cup {Hold(115, 5)}

FlatSeries == {Hold(a, len) : a \in FlatAngles, len \in 0..MaxFlat}

ElbowSeries == DipSeries(MaxReps, TopAngles, DipAngles, Holds)
                   \cup FlatSeries

\* Repetitions and references given to the scoring functions
RECURSIVE SeqsUpTo(_, _)
SeqsUpTo(S, n) ==
    IF n = 0 THEN {<<>>}
    ELSE LET shorter == SeqsUpTo(S, n - 1)
         IN  shorter \cup {x \o <<a>> : x \in {y \in shorter : Len(y) = n - 1},
                                        a \in S}

RepAngles == {85, 118, 150, 170, NaN}
RefAngles == {90, 170, NaN}
\* reference names are file stems, none of them one of the two reserved
\* match names "heuristic" and "no_reference"
RefNames == {"deep", "fast"}

UserReps == SeqsUpTo(RepAngles, MaxRepLen)
References == SeqsUpTo(RefAngles, MaxRefLen)

Libraries ==
    {<<>>}
    \cup {<<[name |-> n, angles |-> a]>> : n \in RefNames, a \in References}
    \cup {<<[name |-> n[1], angles |-> a1], [name |-> n[2], angles |-> a2]>> :
             n \in {q \in RefNames \X RefNames : q[1] # q[2]},
             a1 \in References, a2 \in References}

MaxAcceptables == {0 - 5, 0, 1, 20}

\* Videos given to the pipeline: every frame has landmarks and an elbow
\* angle; the body-alignment angle follows one of a few patterns.
PipeSeries == DipSeries(MaxPipeReps, TopAngles, DipAngles, {Hold(180, 9), Hold(140, 9)})
                  \cup {<<>>, Hold(170, 4)}

HipPatterns == {"straight", "sagging", "late sag"}

hip_at(pattern, i, n) ==
    CASE pattern = "straight" -> 170
      [] pattern = "sagging"  -> 150
      [] pattern = "late sag" -> IF 2 * i >= n THEN 150 ELSE 170

video_of(series, pattern) ==
    [k \in DOMAIN series |->
        [landmarks |-> TRUE, elbow |-> series[k],
         hip |-> hip_at(pattern, k - 1, Len(series))]]

PipeLibraries ==
    {<<>>,
     <<[name |-> "deep", angles |-> <<180, 90, 180>>]>>,
     <<[name |-> "deep", angles |-> <<180, 90, 180>>],
       [name |-> "fast", angles |-> <<170, NaN>>]>>}

----------------------------------------------------------------------------
(* Idle values of the variables an entry point does not use *)

NoOutcome == [fn |-> "none", raised |-> FALSE, score |-> 0,
              name |-> "", distance |-> Frac(0, 1), errors |-> <<>>,
              max_acceptable |-> 0, golden |-> <<>>]

SegIdle == elbow_angles = <<>> /\ passes = 0 /\ primary = <<>> /\ reps = <<>>

ScoreIdle == user_rep_angles = <<>> /\ outcome = NoOutcome

PipeIdle ==
    /\ video = <<>>
    /\ detector = "none"
    /\ raw_elbow_angles = <<>>
    /\ raw_hip_angles = <<>>
    /\ segmented_reps = <<>>
    /\ all_scores = <<>>
    /\ all_form_errors = {}
    /\ rep_details = <<>>
    /\ hip_cursor = 0
    /\ feedback_calls = 0
    /\ response = [pending |-> TRUE]

NoUpload == [filename |-> "", frames |-> <<>>]

EndpointIdle ==
    /\ upload = NoUpload
    /\ upload_dir = {}
    /\ background_tasks = <<>>

----------------------------------------------------------------------------
(* rep_splitter.py: segment_reps, step by step *)

InitSeg ==
    /\ pc = "segment_reps"
    /\ elbow_angles \in ElbowSeries
    /\ passes = 0
    /\ primary = <<>>
    /\ reps = <<>>
    /\ golden_library = <<>>
    /\ ScoreIdle
    /\ PipeIdle
    /\ EndpointIdle

\* lines 113-114: fewer than two frames
ReturnShort ==
    /\ pc = "segment_reps"
    /\ Len(elbow_angles) < 2
    /\ pc' = "seg_returned"
    /\ reps' = <<>>
    /\ UNCHANGED endpointVars
    /\ UNCHANGED <<elbow_angles, passes, primary, scoreVars, golden_library,
                   pipeVars>>

\* lines 116-128: pass 1 with the default thresholds
PrimaryPass ==
    /\ pc = "segment_reps"
    /\ Len(elbow_angles) >= 2
    /\ primary' = detect_reps_repaired(elbow_angles,
                      VALLEY_DEPTH_THRESHOLD, LOCKOUT_MIN_ANGLE,
                      VALLEY_PROMINENCE, VALLEY_MIN_DISTANCE)
    /\ passes' = passes + 1
    /\ pc' = "pass1_done"
    /\ UNCHANGED endpointVars
    /\ UNCHANGED <<elbow_angles, reps, scoreVars, golden_library, pipeVars>>

\* lines 130-131
ReturnPrimary ==
    /\ pc = "pass1_done"
    /\ primary # <<>>
    /\ reps' = primary
    /\ pc' = "seg_returned"
    /\ UNCHANGED endpointVars
    /\ UNCHANGED <<elbow_angles, passes, primary, scoreVars, golden_library,
                   pipeVars>>

\* a fallback pass that runs whatever pass 1 found
FallbackPassUnguarded ==
    /\ pc = "pass1_done"
    /\ reps' = detect_reps_repaired(elbow_angles,
                   FALLBACK_VALLEY_DEPTH_THRESHOLD,
                   FALLBACK_LOCKOUT_MIN_ANGLE,
                   FALLBACK_VALLEY_PROMINENCE,
                   FALLBACK_VALLEY_MIN_DISTANCE)
    /\ passes' = passes + 1
    /\ pc' = "seg_returned"
    /\ UNCHANGED endpointVars
    /\ UNCHANGED <<elbow_angles, primary, scoreVars, golden_library,
                   pipeVars>>

\* lines 133-151: pass 2 with the fallback thresholds, returned as it is
FallbackPass ==
    /\ pc = "pass1_done"
    /\ primary = <<>>
    /\ reps' = detect_reps_repaired(elbow_angles,
                   FALLBACK_VALLEY_DEPTH_THRESHOLD,
                   FALLBACK_LOCKOUT_MIN_ANGLE,
                   FALLBACK_VALLEY_PROMINENCE,
                   FALLBACK_VALLEY_MIN_DISTANCE)
    /\ passes' = passes + 1
    /\ pc' = "seg_returned"
    /\ UNCHANGED endpointVars
    /\ UNCHANGED <<elbow_angles, primary, scoreVars, golden_library,
                   pipeVars>>

NextSeg == ReturnShort \/ PrimaryPass \/ ReturnPrimary \/ FallbackPass

----------------------------------------------------------------------------
(* dtw_engine.py: one call of a scoring function *)

InitScore ==
    /\ pc = "score"
    /\ user_rep_angles \in UserReps
    /\ golden_library \in Libraries
    /\ outcome = NoOutcome
    /\ SegIdle
    /\ PipeIdle
    /\ EndpointIdle

\* calculate_dtw_distance on the repetition and a second series, which is
\* a reference of the library or the repetition itself
CallDtwDistance ==
    /\ pc = "score"
    /\ \E golden_angles \in {golden_library[k].angles :
                                  k \in DOMAIN golden_library}
                              \cup {user_rep_angles} :
          outcome' = [NoOutcome EXCEPT
                         !.fn = "calculate_dtw_distance",
                         !.golden = golden_angles,
                         !.distance = calculate_dtw_distance(
                                          user_rep_angles, golden_angles)]
    /\ pc' = "scored"
    /\ UNCHANGED endpointVars
    /\ UNCHANGED <<segVars, user_rep_angles, golden_library, pipeVars>>

CallFormScore ==
    /\ pc = "score"
    /\ \E k \in DOMAIN golden_library, m \in MaxAcceptables :
       \E d \in {calculate_dtw_distance(user_rep_angles,
                                        golden_library[k].angles)} :
          outcome' = [NoOutcome EXCEPT
                         !.fn = "calculate_form_score",
                         !.distance = d,
                         !.max_acceptable = m,
                         !.score = calculate_form_score(d, m)]
    /\ pc' = "scored"
    /\ UNCHANGED endpointVars
    /\ UNCHANGED <<segVars, user_rep_angles, golden_library, pipeVars>>

CallHeuristic ==
    /\ pc = "score"
    /\ \E h \in {score_rep_heuristic(user_rep_angles)} :
          outcome' = [NoOutcome EXCEPT
                         !.fn = "score_rep_heuristic",
                         !.raised = h.raised,
                         !.score = h.score,
                         !.errors = h.errors]
    /\ pc' = "scored"
    /\ UNCHANGED endpointVars
    /\ UNCHANGED <<segVars, user_rep_angles, golden_library, pipeVars>>

CallBlended ==
    /\ pc = "score"
    /\ \E k \in DOMAIN golden_library :
       \E b \in {score_rep_blended(user_rep_angles,
                                   golden_library[k].angles)} :
          outcome' = [NoOutcome EXCEPT
                         !.fn = "score_rep_blended",
                         !.raised = b.raised,
                         !.score = b.score,
                         !.errors = b.errors,
                         !.name = golden_library[k].name]
    /\ pc' = "scored"
    /\ UNCHANGED endpointVars
    /\ UNCHANGED <<segVars, user_rep_angles, golden_library, pipeVars>>

CallEvaluate ==
    /\ pc = "score"
    /\ \E m \in MaxAcceptables :
       \E e \in {evaluate_against_library(user_rep_angles,
                                          golden_library, m)} :
          outcome' = [NoOutcome EXCEPT
                         !.fn = "evaluate_against_library",
                         !.raised = e.raised,
                         !.score = e.score,
                         !.name = e.name,
                         !.distance = e.distance,
                         !.max_acceptable = m]
    /\ pc' = "scored"
    /\ UNCHANGED endpointVars
    /\ UNCHANGED <<segVars, user_rep_angles, golden_library, pipeVars>>

NextScore ==
    CallDtwDistance \/ CallFormScore \/ CallHeuristic \/ CallBlended \/ CallEvaluate

----------------------------------------------------------------------------
(* server.py: run_analysis_pipeline *)

InitPipe ==
    /\ pc = "step1"
    /\ \E series \in PipeSeries, pattern \in HipPatterns :
          video = video_of(series, pattern)
    /\ golden_library \in PipeLibraries
    /\ detector = "none"
    /\ raw_elbow_angles = <<>>
    /\ raw_hip_angles = <<>>
    /\ segmented_reps = <<>>
    /\ all_scores = <<>>
    /\ all_form_errors = {}
    /\ rep_details = <<>>
    /\ hip_cursor = 0
    /\ feedback_calls = 0
    /\ response = [pending |-> TRUE]
    /\ SegIdle
    /\ ScoreIdle
    /\ EndpointIdle

PipelineFailed == [status |-> "error",
                   message |-> "Analysis pipeline failed"]

NoPushUps == [status |-> "error", message |-> "No valid push-ups detected"]

\* lines 145-154: the detector is built and the library loaded outside
\* the try block; an exception of either leaves the function at once
Step1 ==
    /\ pc = "step1"
    /\ \/ detector' = "open" /\ pc' = "step2"
       \/ detector' = "none" /\ pc' = "raised"
       \/ detector' = "open" /\ pc' = "raised"
    /\ UNCHANGED endpointVars
    /\ UNCHANGED <<segVars, scoreVars, golden_library, video,
                   raw_elbow_angles, raw_hip_angles, segmented_reps,
                   all_scores, all_form_errors, rep_details, hip_cursor,
                   feedback_calls, response>>

\* lines 160-188: the frame loop
Step2 ==
    /\ pc = "step2"
    /\ raw_elbow_angles' = angles_of(video, "elbow")
    /\ raw_hip_angles' = angles_of(video, "hip")
    /\ pc' = "step3"
    /\ UNCHANGED endpointVars
    /\ UNCHANGED <<segVars, scoreVars, golden_library, video, detector,
                   segmented_reps, all_scores, all_form_errors, rep_details,
                   hip_cursor, feedback_calls, response>>

\* extract_frames raises (the file is missing or cannot be opened):
\* lines 344-349 turn the exception into an error result
Step2Raise ==
    /\ pc = "step2"
    /\ response' = PipelineFailed
    /\ pc' = "finally"
    /\ UNCHANGED endpointVars
    /\ UNCHANGED <<segVars, scoreVars, golden_library, video, detector,
                   raw_elbow_angles, raw_hip_angles, segmented_reps,
                   all_scores, all_form_errors, rep_details, hip_cursor,
                   feedback_calls>>

\* a step 3 that goes on to scoring whatever the segmenter returned
Step3Unchecked ==
    /\ pc = "step3"
    /\ segmented_reps' = segment_reps(raw_elbow_angles)
    /\ pc' = "step4"
    /\ UNCHANGED endpointVars
    /\ UNCHANGED <<segVars, scoreVars, golden_library, video, detector,
                   raw_elbow_angles, raw_hip_angles, all_scores,
                   all_form_errors, rep_details, hip_cursor, feedback_calls,
                   response>>

\* lines 195-207: segmentation and the zero-repetition return
Step3 ==
    /\ pc = "step3"
    /\ \E found \in {segment_reps(raw_elbow_angles)} :
           /\ segmented_reps' = found
           /\ IF Len(found) = 0
              THEN response' = NoPushUps /\ pc' = "finally"
              ELSE response' = response /\ pc' = "step4"
    /\ UNCHANGED endpointVars
    /\ UNCHANGED <<segVars, scoreVars, golden_library, video, detector,
                   raw_elbow_angles, raw_hip_angles, all_scores,
                   all_form_errors, rep_details, hip_cursor, feedback_calls>>

\* lines 230-276: one turn of the scoring loop
ScoreRep ==
    /\ pc = "step4"
    /\ Len(rep_details) < Len(segmented_reps)
    /\ \E rep_elbow_angles \in {segmented_reps[Len(rep_details) + 1].vals} :
       \E e \in {evaluate_against_library(rep_elbow_angles, golden_library,
                                          DTW_MAX_ACCEPTABLE_DISTANCE)},
          h \in {score_rep_heuristic(rep_elbow_angles)},
          rep_frame_count \in {Len(rep_elbow_angles)} :
       \E rep_hip_slice \in {rep_hip_slice_of(raw_hip_angles, hip_cursor,
                                              rep_frame_count)} :
           IF e.raised \/ h.raised
           THEN /\ response' = PipelineFailed
                /\ pc' = "finally"
                /\ UNCHANGED <<all_scores, all_form_errors, rep_details,
                               hip_cursor>>
           ELSE /\ all_scores' = Append(all_scores, e.score)
                /\ all_form_errors' = all_form_errors \cup SeqToSet(h.errors)
                /\ hip_cursor' = hip_cursor + rep_frame_count
                /\ rep_details' = Append(rep_details,
                       [rep_number |-> Len(rep_details) + 1,
                        dtw_score |-> e.score,
                        min_elbow_angle |-> py_min(rep_elbow_angles),
                        hip_slice |-> rep_hip_slice,
                        hip_sag |-> hip_sag_of(rep_hip_slice)])
                /\ UNCHANGED <<pc, response>>
    /\ UNCHANGED endpointVars
    /\ UNCHANGED <<segVars, scoreVars, golden_library, video, detector,
                   raw_elbow_angles, raw_hip_angles, segmented_reps,
                   feedback_calls>>

\* an aggregation that reports the heuristic labels only
AggregateHeuristicLabelsOnly ==
    /\ pc = "step4"
    /\ Len(rep_details) = Len(segmented_reps)
    /\ IF all_scores = <<>>
       THEN /\ response' = PipelineFailed
            /\ pc' = "finally"
            /\ UNCHANGED <<all_form_errors, feedback_calls>>
       ELSE /\ all_form_errors' = all_form_errors
            /\ feedback_calls' = feedback_calls + 1
            /\ response' = [average_score |-> overall_score_of(all_scores),
                            specific_errors |->
                                sorted_labels(all_form_errors')]
            /\ pc' = "step6"
    /\ UNCHANGED endpointVars
    /\ UNCHANGED <<segVars, scoreVars, golden_library, video, detector,
                   raw_elbow_angles, raw_hip_angles, segmented_reps,
                   all_scores, rep_details, hip_cursor>>

\* lines 278-320: the set's errors and score, then the coaching feedback,
\* which never raises
Aggregate ==
    /\ pc = "step4"
    /\ Len(rep_details) = Len(segmented_reps)
    /\ IF all_scores = <<>>
       THEN /\ response' = PipelineFailed
            /\ pc' = "finally"
            /\ UNCHANGED <<all_form_errors, feedback_calls>>
       ELSE /\ all_form_errors' =
                   IF \E k \in DOMAIN rep_details : rep_details[k].hip_sag
                   THEN all_form_errors \cup {"hips sagging"}
                   ELSE all_form_errors
            /\ feedback_calls' = feedback_calls + 1
            /\ response' = [average_score |-> overall_score_of(all_scores),
                            specific_errors |->
                                sorted_labels(all_form_errors')]
            /\ pc' = "step6"
    /\ UNCHANGED endpointVars
    /\ UNCHANGED <<segVars, scoreVars, golden_library, video, detector,
                   raw_elbow_angles, raw_hip_angles, segmented_reps,
                   all_scores, rep_details, hip_cursor>>

\* lines 325-342: the response of a successful run
Step6 ==
    /\ pc = "step6"
    /\ response' = [overall_score |-> response.average_score,
                    total_valid_reps |-> Len(segmented_reps),
                    rep_data |-> [k \in DOMAIN rep_details |->
                        [rep_number |-> rep_details[k].rep_number,
                         dtw_score |-> rep_details[k].dtw_score,
                         min_elbow_angle |->
                             rep_details[k].min_elbow_angle]]]
    /\ pc' = "finally"
    /\ UNCHANGED endpointVars
    /\ UNCHANGED <<segVars, scoreVars, golden_library, video, detector,
                   raw_elbow_angles, raw_hip_angles, segmented_reps,
                   all_scores, all_form_errors, rep_details, hip_cursor,
                   feedback_calls>>

\* lines 351-354
Finally ==
    /\ pc = "finally"
    /\ detector' = "closed"
    /\ pc' = "pipe_returned"
    /\ UNCHANGED endpointVars
    /\ UNCHANGED <<segVars, scoreVars, golden_library, video,
                   raw_elbow_angles, raw_hip_angles, segmented_reps,
                   all_scores, all_form_errors, rep_details, hip_cursor,
                   feedback_calls, response>>

NextPipe == Step1 \/ Step2 \/ Step2Raise \/ Step3 \/ ScoreRep \/ Aggregate
                \/ Step6 \/ Finally

----------------------------------------------------------------------------
(* The program: its three entry points *)

----------------------------------------------------------------------------
(* server.py lines 285-292 on their own: the overall score of a list of   *)
(* per-repetition scores                                                   *)

ScoreValues == {0, 30, 90, 100}
ScoreLists == SeqsUpTo(ScoreValues, MaxScores) \ {<<>>}

InitAgg ==
    /\ pc = "scores"
    /\ all_scores \in ScoreLists
    /\ video = <<>>
    /\ detector = "none"
    /\ raw_elbow_angles = <<>>
    /\ raw_hip_angles = <<>>
    /\ segmented_reps = <<>>
    /\ all_form_errors = {}
    /\ rep_details = <<>>
    /\ hip_cursor = 0
    /\ feedback_calls = 0
    /\ response = [pending |-> TRUE]
    /\ golden_library = <<>>
    /\ SegIdle
    /\ ScoreIdle
    /\ EndpointIdle

OverallScore ==
    /\ pc = "scores"
    /\ response' = [average_score |-> overall_score_of(all_scores)]
    /\ pc' = "averaged"
    /\ UNCHANGED endpointVars
    /\ UNCHANGED <<segVars, scoreVars, golden_library, video, detector,
                   raw_elbow_angles, raw_hip_angles, segmented_reps,
                   all_scores, all_form_errors, rep_details, hip_cursor,
                   feedback_calls>>

NextAgg == OverallScore

----------------------------------------------------------------------------
(* Specifications *)

----------------------------------------------------------------------------
(* dtw_engine.py: score_rep_heuristic on repetitions around the label     *)
(* thresholds *)

\* sample angles on both sides of half credit for depth (115) and for
\* lockout (145) and at the ends of the two windows
LabelAngles == {90, 114, 115, 116, 130, 140, 144, 145, 146, 160, NaN}

InitHeuristic ==
    /\ pc = "score"
    /\ user_rep_angles \in SeqsUpTo(LabelAngles, MaxRepLen)
    /\ golden_library = <<>>
    /\ outcome = NoOutcome
    /\ SegIdle
    /\ PipeIdle
    /\ EndpointIdle

NextHeuristic == CallHeuristic

----------------------------------------------------------------------------
(* server.py: the /analyze endpoint, analyze_video *)

ALLOWED_EXTENSIONS == {".mp4", ".mov"}

\* line 381: Path(file.filename).suffix.lower(), "" without a file name
suffix_of(filename) ==
    CASE filename = "set.mp4" -> ".mp4"
      [] filename = "SET.MOV" -> ".mov"
      [] filename = "set.avi" -> ".avi"
      [] OTHER -> ""

Filenames == {"set.mp4", "SET.MOV", "set.avi", ""}

\* the videos uploaded: no frame with landmarks, a held plank, one push-up
EndpointVideos ==
    {video_of(series, pattern) :
        series \in {<<>>, Hold(170, 4), <<180, 90>> \o Hold(180, 9)},
        pattern \in {"straight", "sagging"}}

Uploads == [filename : Filenames, frames : EndpointVideos]

\* line 392: UPLOAD_DIR / f"{uuid.uuid4()}{original_suffix}"
save_path_of(file) == [dir |-> "uploads", suffix |-> suffix_of(file.filename)]

InitEndpoint ==
    /\ pc = "analyze"
    /\ upload \in Uploads
    /\ upload_dir = {}
    /\ background_tasks = <<>>
    /\ golden_library \in PipeLibraries
    /\ SegIdle
    /\ ScoreIdle
    /\ PipeIdle

\* lines 381-389: a file of another type is refused with status 400
RejectUpload ==
    /\ pc = "analyze"
    /\ suffix_of(upload.filename) \notin ALLOWED_EXTENSIONS
    /\ response' = [status_code |-> 400]
    /\ pc' = "http_error"
    /\ UNCHANGED <<segVars, scoreVars, golden_library, video, detector,
                   raw_elbow_angles, raw_hip_angles, segmented_reps,
                   all_scores, all_form_errors, rep_details, hip_cursor,
                   feedback_calls, endpointVars>>

\* lines 392-396: the upload is written to the upload directory, and
\* line 401 starts run_analysis_pipeline on the saved file
SaveUpload ==
    /\ pc = "analyze"
    /\ suffix_of(upload.filename) \in ALLOWED_EXTENSIONS
    /\ upload_dir' = upload_dir \cup {save_path_of(upload)}
    /\ video' = upload.frames
    /\ pc' = "step1"
    /\ UNCHANGED <<segVars, scoreVars, golden_library, detector,
                   raw_elbow_angles, raw_hip_angles, segmented_reps,
                   all_scores, all_form_errors, rep_details, hip_cursor,
                   feedback_calls, response, upload, background_tasks>>

\* lines 393-398: reading the upload raises, or writing it raises and
\* may leave the file it had opened; status 500
SaveUploadRaise ==
    /\ pc = "analyze"
    /\ suffix_of(upload.filename) \in ALLOWED_EXTENSIONS
    /\ upload_dir' \in {upload_dir, upload_dir \cup {save_path_of(upload)}}
    /\ response' = [status_code |-> 500]
    /\ pc' = "http_error"
    /\ UNCHANGED <<segVars, scoreVars, golden_library, video, detector,
                   raw_elbow_angles, raw_hip_angles, segmented_reps,
                   all_scores, all_form_errors, rep_details, hip_cursor,
                   feedback_calls, upload, background_tasks>>

\* lines 401-406: run_analysis_pipeline has returned its result; the
\* deletion of the saved file is registered and the result is returned.
\* An exception of run_analysis_pipeline leaves analyze_video at line 401.
RegisterCleanup ==
    /\ pc = "pipe_returned"
    /\ upload # NoUpload
    /\ background_tasks' = Append(background_tasks,
           [task |-> "delete_temp_file", file_path |-> save_path_of(upload)])
    /\ pc' = "analyze_returned"
    /\ UNCHANGED <<segVars, scoreVars, golden_library, pipeVars, upload,
                   upload_dir>>

\* lines 361-366: delete_temp_file, run after the response is sent
RunBackgroundTask ==
    /\ pc = "analyze_returned"
    /\ background_tasks # <<>>
    /\ upload_dir' = upload_dir \ {Head(background_tasks).file_path}
    /\ background_tasks' = Tail(background_tasks)
    /\ pc' = "cleaned"
    /\ UNCHANGED <<segVars, scoreVars, golden_library, pipeVars, upload>>

NextEndpoint ==
    RejectUpload \/ SaveUpload \/ SaveUploadRaise \/ NextPipe
        \/ RegisterCleanup \/ RunBackgroundTask

----------------------------------------------------------------------------
(* rep_splitter.py: segment_reps on series with non-finite samples *)

\* the series with the samples at the 0-based indices from..(from+len-1)
\* lost
WithGap(series, from, len) ==
    [k \in DOMAIN series |->
        IF from < k /\ k <= from + len THEN NaN ELSE series[k]]

\* one deep push-up, one shallow one, two push-ups, and no movement
GapBases ==
    {Hold(180, 3) \o <<90>> \o Hold(180, 5),
     Hold(180, 3) \o <<170>> \o Hold(180, 5),
     <<180, 120, 90, 120>> \o Hold(180, 9) \o <<100, 90, 150, 180>>,
     Hold(170, 6)}

\* a run of 1..MaxGap lost samples anywhere in a series, and the series
\* with no finite sample at all
GapSeries ==
    UNION {{WithGap(s, from, len) :
               from \in 0..(Len(s) - 1), len \in 1..MaxGap} : s \in GapBases}
    \cup {Hold(NaN, len) : len \in 0..MaxFlat}

InitRepair ==
    /\ pc = "segment_reps"
    /\ elbow_angles \in GapSeries
    /\ passes = 0
    /\ primary = <<>>
    /\ reps = <<>>
    /\ golden_library = <<>>
    /\ ScoreIdle
    /\ PipeIdle
    /\ EndpointIdle

Init == InitSeg \/ InitScore \/ InitPipe

Next == NextSeg \/ NextScore \/ NextPipe

Spec == Init /\ [][Next]_vars

\* each entry point on its own
SpecSeg == InitSeg /\ [][NextSeg]_vars
SpecScore == InitScore /\ [][NextScore]_vars
SpecPipe == InitPipe /\ [][NextPipe]_vars
SpecAgg == InitAgg /\ [][NextAgg]_vars
SpecHeuristic == InitHeuristic /\ [][NextHeuristic]_vars

SpecRepair == InitRepair /\ [][NextSeg]_vars

SpecEndpoint == InitEndpoint /\ [][NextEndpoint]_vars
\* the event loop goes on running the request while a step of it can be
\* taken
SpecEndpointLive == SpecEndpoint /\ WF_vars(NextEndpoint)

----------------------------------------------------------------------------
(* Properties: scores *)

Scored(fn) == pc = "scored" /\ outcome.fn = fn

FiniteRep == user_rep_angles # <<>> /\ AllFinite(user_rep_angles)

\* C1: for a non-empty finite repetition each of the four scoring
\* functions returns a score in 0..100, whatever the library, and so is
\* every per-repetition score the pipeline collects and the overall score
\* it computes from them.
ScoresWithinRange ==
    /\ (pc = "scored" /\ FiniteRep) =>
           (~outcome.raised /\ outcome.score \in 0..100)
    /\ \A k \in DOMAIN all_scores : all_scores[k] \in 0..100
    /\ "average_score" \in DOMAIN response =>
           response.average_score \in 0..100
    /\ "overall_score" \in DOMAIN response =>
           response.overall_score \in 0..100

\* a finite repetition scored against a library strictly inside the range
ScoresWithinRangeReached ==
    /\ Scored("evaluate_against_library")
    /\ FiniteRep
    /\ golden_library # <<>>
    /\ outcome.score \in 1..99

----------------------------------------------------------------------------
(* Properties: segmentation *)

PrimaryResult ==
    detect_reps_by_valleys(elbow_angles, VALLEY_DEPTH_THRESHOLD,
        LOCKOUT_MIN_ANGLE, VALLEY_PROMINENCE, VALLEY_MIN_DISTANCE)

FallbackResult ==
    detect_reps_by_valleys(elbow_angles, FALLBACK_VALLEY_DEPTH_THRESHOLD,
        FALLBACK_LOCKOUT_MIN_ANGLE, FALLBACK_VALLEY_PROMINENCE,
        FALLBACK_VALLEY_MIN_DISTANCE)

\* C2: the fallback pass runs only after a primary pass that found no
\* slice; a non-empty primary result is returned as it is after one pass;
\* after the fallback pass its result is returned, the empty list if it
\* found nothing, and no third pass is made.
FallbackOnlyAfterEmptyPrimary ==
    /\ passes \in 0..2
    /\ passes >= 1 => primary = PrimaryResult
    /\ passes = 2 => primary = <<>>
    /\ (pc = "seg_returned" /\ primary # <<>>) =>
           (reps = primary /\ passes = 1)
    /\ (pc = "seg_returned" /\ passes = 2) => reps = FallbackResult

\* the fallback pass has run and found slices
FallbackFoundSlices ==
    pc = "seg_returned" /\ passes = 2 /\ primary = <<>> /\ reps # <<>>

PrimaryValleys ==
    deep_valleys_of(elbow_angles, VALLEY_DEPTH_THRESHOLD, VALLEY_PROMINENCE,
                    VALLEY_MIN_DISTANCE)

FallbackValleys ==
    deep_valleys_of(elbow_angles, FALLBACK_VALLEY_DEPTH_THRESHOLD,
                    FALLBACK_VALLEY_PROMINENCE, FALLBACK_VALLEY_MIN_DISTANCE)

\* there is a deep valley and every candidate slice reaches the lockout
AllReachLockout(deep_valleys, lockout) ==
    /\ deep_valleys # <<>>
    /\ \A i \in DOMAIN deep_valleys :
           SeqMax(candidate_slice(elbow_angles, deep_valleys, i).vals)
               >= lockout

\* one slice per valley, from frame 0 to the end of the series
CoversSeries(deep_valleys) ==
    /\ Len(reps) = Len(deep_valleys)
    /\ reps[1].start = 0
    /\ reps[Len(reps)].end = Len(elbow_angles)

\* C3: when a pass that ran detects N >= 1 deep valleys and every
\* candidate slice reaches that pass's lockout angle, N slices are
\* returned, the first from frame 0 and the last up to the end of the
\* series.
OneSlicePerValley ==
    pc = "seg_returned" =>
        /\ (passes >= 1 /\ AllReachLockout(PrimaryValleys, LOCKOUT_MIN_ANGLE))
               => CoversSeries(PrimaryValleys)
        /\ (passes = 2 /\ AllReachLockout(FallbackValleys,
                                          FALLBACK_LOCKOUT_MIN_ANGLE))
               => CoversSeries(FallbackValleys)

\* several repetitions, the last one followed only by a held top of nine
\* frames, and all of them returned
TerminalPlateauKept ==
    /\ pc = "seg_returned"
    /\ passes = 1
    /\ Len(PrimaryValleys) >= 2
    /\ Len(reps) = Len(PrimaryValleys)
    /\ PrimaryValleys[Len(PrimaryValleys)] = Len(elbow_angles) - 10
    /\ \A i \in (Len(elbow_angles) - 9)..(Len(elbow_angles) - 1) :
           At(elbow_angles, i) = 180

\* the deep valleys of the pass whose result was returned
ReturnedValleys == IF passes = 2 THEN FallbackValleys ELSE PrimaryValleys

\* the deep valleys of the pass whose result segment_reps returns, for
\* any series
returned_valleys(angles) ==
    IF Len(angles) < 2 THEN <<>>
    ELSE IF detect_reps_by_valleys(angles, VALLEY_DEPTH_THRESHOLD,
                LOCKOUT_MIN_ANGLE, VALLEY_PROMINENCE,
                VALLEY_MIN_DISTANCE) # <<>>
    THEN deep_valleys_of(angles, VALLEY_DEPTH_THRESHOLD, VALLEY_PROMINENCE,
                         VALLEY_MIN_DISTANCE)
    ELSE deep_valleys_of(angles, FALLBACK_VALLEY_DEPTH_THRESHOLD,
                         FALLBACK_VALLEY_PROMINENCE,
                         FALLBACK_VALLEY_MIN_DISTANCE)

\* the series with the valley at frame v filled in: the flat run around v
\* is raised to its lower rim, so that no dip is left there
without_valley(angles, v) ==
    LET lo == SetMin({i \in 0..v :
                  \A j \in i..v : At(angles, j) = At(angles, v)})
        hi == SetMax({i \in v..(Len(angles) - 1) :
                  \A j \in v..i : At(angles, j) = At(angles, v)})
        rim == IF At(angles, lo - 1) < At(angles, hi + 1)
               THEN At(angles, lo - 1) ELSE At(angles, hi + 1)
    IN  [k \in DOMAIN angles |->
            IF k - 1 \in lo..hi THEN rim ELSE angles[k]]

without_item(x, k) == SubSeq(x, 1, k - 1) \o SubSeq(x, k + 1, Len(x))

\* the slices of after are those of before with slices k-1, k and k+1
\* replaced by two slices that share their frames
Absorbed(before, after, k) ==
    /\ Len(after) = Len(before) - 1
    /\ \A j \in 1..(k - 2) :
           after[j].start = before[j].start /\ after[j].end = before[j].end
    /\ after[k - 1].start = before[k - 1].start
    /\ after[k - 1].end >= before[k - 1].end
    /\ after[k - 1].end = after[k].start
    /\ after[k].start <= before[k + 1].start
    /\ after[k].end = before[k + 1].end
    /\ \A j \in (k + 1)..Len(after) :
           after[j].start = before[j + 1].start
               /\ after[j].end = before[j + 1].end

\* C4: when N deep valleys gave N returned slices and one interior valley
\* is filled in, the other valleys being detected as before and no new
\* one, N - 1 slices are returned; the slices on either side of the
\* missing valley take over its frames and every other slice is as it was.
MissedValleyCostsOneSlice ==
    (pc = "seg_returned" /\ Len(reps) >= 2) =>
        LET deep_valleys == ReturnedValleys
            N == Len(deep_valleys)
        IN  Len(reps) = N =>
                \A k \in 2..(N - 1) :
                    LET missed == without_valley(elbow_angles,
                                                 deep_valleys[k])
                    IN  returned_valleys(missed)
                            = without_item(deep_valleys, k)
                        => Absorbed(reps, segment_reps(missed), k)

\* three returned slices whose middle valley can be filled in with the
\* two others detected as before
InteriorValleyMissed ==
    /\ pc = "seg_returned"
    /\ Len(reps) = 3
    /\ Len(ReturnedValleys) = 3
    /\ returned_valleys(without_valley(elbow_angles, ReturnedValleys[2]))
           = without_item(ReturnedValleys, 2)
    /\ Len(segment_reps(without_valley(elbow_angles,
                                       ReturnedValleys[2]))) = 2

\* the candidate slices of the pass that returned which missed its lockout
DroppedCandidates ==
    LET deep_valleys == ReturnedValleys
        lockout == IF passes = 2 THEN FALLBACK_LOCKOUT_MIN_ANGLE
                   ELSE LOCKOUT_MIN_ANGLE
        candidates == {candidate_slice(elbow_angles, deep_valleys, i) :
                          i \in DOMAIN deep_valleys}
    IN  {c \in candidates : SeqMax(c.vals) < lockout}

\* C5: every returned slice is the frames start..end-1 of the series; the
\* slices are pairwise disjoint and their starts strictly increase; no
\* frame of a candidate that missed the lockout angle is in any returned
\* slice.
SlicesDisjointAndOrdered ==
    pc = "seg_returned" =>
        /\ \A i \in DOMAIN reps :
               /\ 0 <= reps[i].start /\ reps[i].start < reps[i].end
               /\ reps[i].end <= Len(elbow_angles)
               /\ reps[i].vals
                      = Slice(elbow_angles, reps[i].start, reps[i].end)
        /\ \A i \in DOMAIN reps : \A j \in DOMAIN reps :
               i < j => /\ reps[i].start < reps[j].start
                        /\ reps[i].end <= reps[j].start
        /\ \A c \in DroppedCandidates : \A i \in DOMAIN reps :
               reps[i].end <= c.start \/ c.end <= reps[i].start

\* a dropped candidate between two returned slices leaves a gap
DroppedSliceLeavesGap ==
    /\ pc = "seg_returned"
    /\ Len(reps) >= 2
    /\ \E c \in DroppedCandidates :
           reps[1].end = c.start /\ c.end = reps[2].start

IsConstant(x) == \A i \in DOMAIN x : x[i] = x[1]

\* C6: a constant series of any length, 0 and 1 included, gives no slice,
\* and neither pass finds a valley in it.
ConstantSeriesHasNoReps ==
    (pc = "seg_returned" /\ IsConstant(elbow_angles)) =>
        /\ reps = <<>>
        /\ primary = <<>>
        /\ Len(elbow_angles) >= 2 =>
               /\ passes = 2
               /\ find_peaks(Negate(elbow_angles), VALLEY_PROMINENCE,
                             VALLEY_MIN_DISTANCE) = <<>>
               /\ find_peaks(Negate(elbow_angles),
                             FALLBACK_VALLEY_PROMINENCE,
                             FALLBACK_VALLEY_MIN_DISTANCE) = <<>>

\* both passes have run on a long constant series below both depth
\* thresholds
ConstantSeriesSegmented ==
    /\ pc = "seg_returned"
    /\ IsConstant(elbow_angles)
    /\ Len(elbow_angles) >= 12
    /\ elbow_angles[1] = 90
    /\ passes = 2

----------------------------------------------------------------------------
(* Properties: the pipeline *)

\* C7: once segment_reps has returned no slice the pipeline never enters
\* the scoring loop, the aggregation or the feedback call, and what it
\* returns is an error result.
ZeroRepsStopPipeline ==
    (pc \in {"step4", "step6", "finally", "pipe_returned"}
         /\ segmented_reps = <<>>) =>
        /\ pc \in {"finally", "pipe_returned"}
        /\ "status" \in DOMAIN response
        /\ response.status = "error"
        /\ all_scores = <<>>
        /\ rep_details = <<>>
        /\ all_form_errors = {}
        /\ feedback_calls = 0

\* a video with frames in which both passes of the segmenter found nothing
ZeroRepsReported ==
    /\ pc = "pipe_returned"
    /\ Len(raw_elbow_angles) >= 2
    /\ segmented_reps = <<>>
    /\ response = NoPushUps

----------------------------------------------------------------------------
(* Properties: matching against the library *)

Evaluated == Scored("evaluate_against_library")

PenaltyFrac == Frac(PENALTY_DISTANCE, 1)

\* With an empty library every repetition, the empty one included, gets
\* match name "heuristic", distance 0 and the score of score_rep_heuristic.
EmptyLibraryAlwaysHeuristic ==
    (Evaluated /\ golden_library = <<>>) =>
        /\ ~outcome.raised
        /\ outcome.name = "heuristic"
        /\ outcome.distance = Frac(0, 1)
        /\ outcome.score = score_rep_heuristic(user_rep_angles).score

\* C8: with an empty library a non-empty repetition that
\* score_rep_heuristic scores gets match name "heuristic", distance 0 and
\* that score; where score_rep_heuristic raises, the evaluation raises;
\* the empty repetition gets match name "no_reference", the penalty
\* distance and score 0.
EmptyLibraryHeuristicUnlessEmptyRep ==
    (Evaluated /\ golden_library = <<>>) =>
        IF user_rep_angles = <<>>
        THEN /\ ~outcome.raised
             /\ outcome.name = "no_reference"
             /\ outcome.distance = PenaltyFrac
             /\ outcome.score = 0
        ELSE /\ outcome.raised = score_rep_heuristic(user_rep_angles).raised
             /\ ~outcome.raised =>
                    /\ outcome.name = "heuristic"
                    /\ outcome.distance = Frac(0, 1)
                    /\ outcome.score
                           = score_rep_heuristic(user_rep_angles).score

\* a non-empty repetition scored by the heuristic alone, above 0
EmptyLibraryScored ==
    /\ Evaluated
    /\ golden_library = <<>>
    /\ user_rep_angles # <<>>
    /\ outcome.name = "heuristic"
    /\ outcome.score > 0

\* every comparison with a reference of the library gives the penalty
AllComparisonsFail ==
    \A k \in DOMAIN golden_library :
        calculate_dtw_distance(user_rep_angles, golden_library[k].angles)
            = PenaltyFrac

\* C9: when the library is not empty and every comparison gives the
\* penalty distance, the evaluation returns match name "no_reference", the
\* penalty distance and the score of score_rep_heuristic alone.
AllPenaltyFallsBackToHeuristic ==
    (Evaluated /\ FiniteRep /\ golden_library # <<>> /\ AllComparisonsFail)
        => /\ ~outcome.raised
           /\ outcome.name = "no_reference"
           /\ outcome.distance = PenaltyFrac
           /\ outcome.score = score_rep_heuristic(user_rep_angles).score

NonEmptyReferences ==
    {k \in DOMAIN golden_library : golden_library[k].angles # <<>>}

\* C10: when the library holds a reference that is compared, the returned
\* name is that of a reference whose distance to the repetition is at most
\* the distance of every reference of the library, and the returned
\* distance is that distance.
ClosestReferenceReturned ==
    (Evaluated /\ user_rep_angles # <<>> /\ ~outcome.raised
         /\ NonEmptyReferences # {}) =>
        /\ \E k \in DOMAIN golden_library :
               golden_library[k].name = outcome.name
        /\ outcome.distance
               = calculate_dtw_distance(user_rep_angles,
                     LibraryGet(golden_library, outcome.name))
        /\ \A k \in DOMAIN golden_library :
               FracLeq(outcome.distance,
                       calculate_dtw_distance(user_rep_angles,
                           golden_library[k].angles))

\* the second of two references is strictly closer and is returned
SecondReferenceCloser ==
    /\ Evaluated
    /\ ~outcome.raised
    /\ Len(golden_library) = 2
    /\ outcome.name = golden_library[2].name
    /\ FracLess(outcome.distance,
                calculate_dtw_distance(user_rep_angles,
                                       golden_library[1].angles))
    /\ FracLess(outcome.distance, PenaltyFrac)
    /\ FracLess(calculate_dtw_distance(user_rep_angles,
                                       golden_library[1].angles),
                PenaltyFrac)

----------------------------------------------------------------------------
(* Blended score of evaluate_against_library *)

\* the returned distance is the smallest of the distances of the
\* repetition to the references that are compared
MinDistanceReturned ==
    \A k \in NonEmptyReferences :
        FracLeq(outcome.distance,
                calculate_dtw_distance(user_rep_angles,
                                       golden_library[k].angles))

MatchedReference ==
    /\ Evaluated
    /\ ~outcome.raised
    /\ outcome.name \in {golden_library[k].name : k \in DOMAIN golden_library}

\* C11: when evaluate_against_library returns a reference of the library,
\* its score is round(0.5 * shape_score + 0.5 * heuristic_score) clamped to
\* 0..100, where shape_score is calculate_form_score of the smallest
\* distance with the maximum 20 and heuristic_score is the score of
\* score_rep_heuristic for the repetition.
MatchedScoreIsEvenBlend ==
    MatchedReference =>
        /\ MinDistanceReturned
        /\ outcome.score =
               Clamp100(RoundHalfEven(
                   calculate_form_score(outcome.distance, 20)
                       + score_rep_heuristic(user_rep_angles).score, 2))

\* a reference at a distance strictly between 0 and 20 is matched, with a
\* scale other than 20 passed in, and the blend falls on a half
MatchedWithinScale ==
    /\ MatchedReference
    /\ outcome.max_acceptable = 1
    /\ FracLess(Frac(0, 1), outcome.distance)
    /\ FracLess(outcome.distance, Frac(20, 1))
    /\ (calculate_form_score(outcome.distance, 20)
          + score_rep_heuristic(user_rep_angles).score) % 2 = 1

\* the repetition is, frame for frame, one of the references
IdenticalToReference ==
    \E k \in DOMAIN golden_library :
        golden_library[k].angles = user_rep_angles

\* C12: for a non-empty finite repetition that is identical to a reference
\* of the library, the score evaluate_against_library returns is at least
\* the score score_rep_heuristic gives to that repetition.
IdenticalRepScoresAtLeastHeuristic ==
    (Evaluated /\ FiniteRep /\ IdenticalToReference) =>
        /\ ~outcome.raised
        /\ outcome.score >= score_rep_heuristic(user_rep_angles).score

\* a repetition identical to one reference, next to a reference that is
\* further away, scores strictly more than its heuristic score
IdenticalRepEvaluated ==
    /\ Evaluated
    /\ FiniteRep
    /\ IdenticalToReference
    /\ \E k \in DOMAIN golden_library :
           FracLess(Frac(0, 1),
                    calculate_dtw_distance(user_rep_angles,
                                           golden_library[k].angles))
    /\ outcome.distance = Frac(0, 1)
    /\ outcome.score > score_rep_heuristic(user_rep_angles).score

----------------------------------------------------------------------------
(* score_rep_heuristic against its stated formula *)

\* five times D, L and R of the stated formula, which are whole numbers
\* of fifths of a point for whole-degree angles
StatedDepth5(min_angle) ==
    IF min_angle <= 90 THEN 5 * 50
    ELSE IF min_angle >= 140 THEN 0
    ELSE (5 * 50 * (140 - min_angle)) \div 50

StatedLockout5(max_angle) ==
    IF max_angle >= 160 THEN 5 * 30
    ELSE IF max_angle <= 130 THEN 0
    ELSE (5 * 30 * (max_angle - 130)) \div 30

StatedArc5(arc) ==
    IF arc >= 70 THEN 5 * 20
    ELSE IF arc <= 20 THEN 0
    ELSE (5 * 20 * (arc - 20)) \div 50

\* floor(D + L + R) clamped to 0..100
StatedHeuristicScore(min_angle, max_angle) ==
    Clamp100((StatedDepth5(min_angle) + StatedLockout5(max_angle)
                  + StatedArc5(max_angle - min_angle)) \div 5)

HeuristicScored == Scored("score_rep_heuristic")

\* C13: for every non-empty repetition score_rep_heuristic returns
\* floor(D + L + R) clamped to 0..100, with D = 50 for min <= 90, 0 for
\* min >= 140 and 50 * (140 - min) / 50 between, L = 30 for max >= 160, 0
\* for max <= 130 and 30 * (max - 130) / 30 between, R = 20 for arc >= 70,
\* 0 for arc <= 20 and 20 * (arc - 20) / 50 between; stated here for the
\* finite repetitions.
HeuristicIsFloorOfStatedSum ==
    (HeuristicScored /\ FiniteRep) =>
        /\ ~outcome.raised
        /\ outcome.score =
               StatedHeuristicScore(py_min(user_rep_angles),
                                    py_max(user_rep_angles))

----------------------------------------------------------------------------
(* Error labels of score_rep_heuristic *)

HeuristicReturned ==
    HeuristicScored /\ user_rep_angles # <<>> /\ ~outcome.raised

RepArc == py_max(user_rep_angles) - py_min(user_rep_angles)

\* The error list of a non-empty repetition holds only "insufficient depth"
\* and "incomplete lockout", whatever the arc is.
OnlyDepthAndLockoutLabels ==
    HeuristicReturned =>
        SeqToSet(outcome.errors)
            \subseteq {"insufficient depth", "incomplete lockout"}

\* C14: the error list of a non-empty repetition holds only labels from
\* "insufficient depth", "incomplete lockout" and "very limited range of
\* motion", and the range-of-motion component adds the last one exactly
\* when the arc is at most 20 degrees.
ArcLabelExactlyForSmallArc ==
    HeuristicReturned =>
        /\ SeqToSet(outcome.errors)
               \subseteq {"insufficient depth", "incomplete lockout",
                          "very limited range of motion"}
        /\ ("very limited range of motion" \in SeqToSet(outcome.errors))
               <=> (RepArc <= 20)

\* a repetition held at full depth moves no more than 20 degrees and gets
\* the range-of-motion label after the lockout label
SmallArcLabelled ==
    /\ HeuristicReturned
    /\ RepArc <= 20
    /\ outcome.errors
           = <<"incomplete lockout", "very limited range of motion">>

----------------------------------------------------------------------------
(* calculate_form_score *)

FormScored == Scored("calculate_form_score")

\* distances a score is compared with, in half degrees
FormDistances == {Frac(n, 2) : n \in {0, 1, 10, 11, 20, 33, 34, 36, 39, 40, 41}}

\* the score of each of the given pairs of a distance and a maximum
RECURSIVE FormScoresOn(_)
FormScoresOn(pairs) ==
    LET p == CHOOSE q \in pairs : TRUE
        here == p :> calculate_form_score(p[1], p[2])
    IN  IF pairs = {p} THEN here ELSE here @@ FormScoresOn(pairs \ {p})

\* the scores of those distances under each positive maximum explored,
\* worked out once
FormScores ==
    FormScoresOn(FormDistances \X {m \in MaxAcceptables : m > 0})

\* C15: with a positive max_acceptable_distance calculate_form_score
\* returns 100 for distance 0 and 0 for every distance that is at least
\* max_acceptable_distance, and it never rises with the distance: a larger
\* distance never scores more, a smaller one never less.
FormScoreFallsWithDistance ==
    (FormScored /\ outcome.max_acceptable > 0) =>
        /\ outcome.distance.num = 0 => outcome.score = 100
        /\ FracLeq(Frac(outcome.max_acceptable, 1), outcome.distance)
               => outcome.score = 0
        /\ \A d \in FormDistances :
               LET s == FormScores[<<d, outcome.max_acceptable>>]
               IN  /\ FracLeq(outcome.distance, d) => outcome.score >= s
                   /\ FracLeq(d, outcome.distance) => s >= outcome.score

\* a distance strictly between 0 and the maximum gets a score strictly
\* between 0 and 100
PartialFormScore ==
    /\ FormScored
    /\ outcome.max_acceptable = 20
    /\ FracLess(Frac(0, 1), outcome.distance)
    /\ FracLess(outcome.distance, Frac(20, 1))
    /\ 0 < outcome.score
    /\ outcome.score < 100

\* C16: when max_acceptable_distance is zero or negative,
\* calculate_form_score returns 0 for every distance, distance 0 included,
\* and raises nothing.
NonPositiveMaxScoresZero ==
    (FormScored /\ outcome.max_acceptable <= 0) =>
        /\ ~outcome.raised
        /\ outcome.score = 0

\* distance 0 is scored with a maximum of 0 and with a negative maximum
ZeroDistanceNonPositiveMax ==
    /\ FormScored
    /\ outcome.max_acceptable <= 0
    /\ outcome.distance.num = 0
    /\ FiniteRep

----------------------------------------------------------------------------
(* calculate_dtw_distance *)

DistanceReturned == Scored("calculate_dtw_distance")

\* C17: the distance of a non-empty finite series to itself is 0.
SelfDistanceIsZero ==
    (DistanceReturned /\ FiniteRep /\ outcome.golden = user_rep_angles) =>
        /\ outcome.distance.num = 0
        /\ outcome.distance.den > 0

\* a series of two different angles is compared with itself
SelfComparedTwoFrames ==
    /\ DistanceReturned
    /\ FiniteRep
    /\ outcome.golden = user_rep_angles
    /\ Len(user_rep_angles) = MaxRepLen
    /\ user_rep_angles[1] # user_rep_angles[2]

\* every alignment of frames i..n of one series with frames j..m of the
\* other: it starts at (i, j), ends at (n, m) and each step moves on by one
\* frame in one series or in both
RECURSIVE WarpingPathsFrom(_, _, _, _)
WarpingPathsFrom(i, j, n, m) ==
    IF i = n /\ j = m THEN {<< <<i, j>> >>}
    ELSE LET down == IF i < n THEN WarpingPathsFrom(i + 1, j, n, m) ELSE {}
             right == IF j < m THEN WarpingPathsFrom(i, j + 1, n, m) ELSE {}
             diag == IF i < n /\ j < m
                     THEN WarpingPathsFrom(i + 1, j + 1, n, m) ELSE {}
         IN  {<< <<i, j>> >> \o p : p \in down \cup right \cup diag}

\* the total cost of an alignment: the sum of |x[i] - y[j]| over its cells
AlignmentCost(p, x, y) ==
    SeqSum([k \in DOMAIN p |-> Abs(x[p[k][1]] - y[p[k][2]])])

ComparableSeries ==
    /\ user_rep_angles # <<>>
    /\ outcome.golden # <<>>
    /\ AllFinite(user_rep_angles)
    /\ AllFinite(outcome.golden)

\* C18: calculate_dtw_distance returns the penalty 9999 when either series
\* is empty or holds a non-finite value; otherwise it returns the total
\* cost of an alignment of the two series divided by the length of that
\* alignment, a cheapest alignment for series this short, which is never
\* negative.
DistanceIsPenaltyOrMeanCost ==
    DistanceReturned =>
        IF ~ComparableSeries THEN outcome.distance = PenaltyFrac
        ELSE LET paths == WarpingPathsFrom(1, 1, Len(user_rep_angles),
                                           Len(outcome.golden))
                 Cost(p) == AlignmentCost(p, user_rep_angles, outcome.golden)
             IN  /\ outcome.distance.num >= 0
                 /\ outcome.distance.den > 0
                 /\ \E p \in paths :
                        /\ Cost(p) = outcome.distance.num
                        /\ Len(p) = outcome.distance.den
                        /\ \A q \in paths : Cost(q) >= Cost(p)

\* two finite series of different lengths are aligned at a cost above 0
\* over more than one cell
MeanCostOverSeveralCells ==
    /\ DistanceReturned
    /\ ComparableSeries
    /\ Len(user_rep_angles) # Len(outcome.golden)
    /\ outcome.distance.num > 0
    /\ outcome.distance.den > 1

----------------------------------------------------------------------------
(* Overall score *)

Averaged == pc = "averaged"

\* C19: for every non-empty list of per-repetition scores the overall
\* score is round(0.7 * mean + 0.3 * min), a whole number nearest to that
\* value: ten times the list's length times their difference is at most
\* five times the length.  The list 30, 30, 30, 30, 100 gives 40.
OverallScoreIsRoundedBlend ==
    Averaged =>
        /\ Abs(10 * Len(all_scores) * response.average_score
                 - (7 * SeqSum(all_scores)
                      + 3 * SeqMin(all_scores) * Len(all_scores)))
               <= 5 * Len(all_scores)
        /\ all_scores = <<30, 30, 30, 30, 100>>
               => response.average_score = 40

\* four repetitions at 30 and one at 100 are averaged to 40
OneGoodRepAmongPoor ==
    /\ Averaged
    /\ all_scores = <<30, 30, 30, 30, 100>>
    /\ response.average_score = 40

----------------------------------------------------------------------------
(* Error list of the set *)

Aggregated == pc = "step6"

\* the heuristic error labels of repetition k of the set
RepLabels(k) == SeqToSet(score_rep_heuristic(segmented_reps[k].vals).errors)

SomeRepSagged == \E k \in DOMAIN rep_details : rep_details[k].hip_sag

\* the place of a label in the order of Python's string comparison
LabelRank(l) == CHOOSE i \in DOMAIN LabelOrder : LabelOrder[i] = l

\* C20: the error list of the set is sorted and free of duplicates, holds
\* exactly the heuristic error labels of all the scored repetitions plus
\* "hips sagging", and holds "hips sagging" if and only if at least one
\* repetition was flagged for hip sag.
SetErrorsAreSortedUnion ==
    Aggregated =>
        LET errs == response.specific_errors
        IN  /\ \A i, j \in DOMAIN errs :
                   i < j => LabelRank(errs[i]) < LabelRank(errs[j])
            /\ SeqToSet(errs) \ {"hips sagging"}
                   = UNION {RepLabels(k) : k \in DOMAIN segmented_reps}
            /\ ("hips sagging" \in SeqToSet(errs)) <=> SomeRepSagged

\* two repetitions share a label, a third label comes from one of them
\* only, and a repetition that sagged stands next to one that did not
SharedLabelsAndOneSag ==
    /\ Aggregated
    /\ \E i, j \in DOMAIN segmented_reps :
          /\ i # j
          /\ RepLabels(i) \cap RepLabels(j) # {}
          /\ RepLabels(i) # RepLabels(j)
    /\ SomeRepSagged
    /\ \E k \in DOMAIN rep_details : ~rep_details[k].hip_sag
    /\ Len(response.specific_errors) >= 3

----------------------------------------------------------------------------
(* Hip sag of a repetition *)

\* the frames of a body-alignment slice that lie strictly below 160 degrees
SaggingFrames(slice) == {i \in DOMAIN slice : slice[i] < 160}

\* C21: a repetition is flagged for hip sag if and only if its
\* body-alignment slice is non-empty and at least 30% of the frames of the
\* slice have an angle strictly below 160 degrees.
SagFlagIsThirtyPercentRule ==
    \A k \in DOMAIN rep_details :
        rep_details[k].hip_sag
            <=> /\ rep_details[k].hip_slice # <<>>
                /\ 10 * Cardinality(SaggingFrames(rep_details[k].hip_slice))
                       >= 3 * Len(rep_details[k].hip_slice)

\* a repetition is flagged although fewer than half of its frames sag
FlaggedWithMinorityOfFrames ==
    \E k \in DOMAIN rep_details :
        /\ rep_details[k].hip_sag
        /\ 2 * Cardinality(SaggingFrames(rep_details[k].hip_slice))
               < Len(rep_details[k].hip_slice)

----------------------------------------------------------------------------
(* Exceptions of the scoring functions *)

\* C22: score_rep_heuristic and evaluate_against_library never raise,
\* whatever the repetition holds, non-finite values included: each call
\* returns a numeric result.
ScoringNeverRaises ==
    (HeuristicScored \/ Evaluated) =>
        /\ ~outcome.raised
        /\ outcome.score \in 0..100

----------------------------------------------------------------------------
(* Body-alignment samples of a repetition *)

\* C23: for every repetition segment_reps returned, the body-alignment
\* samples examined for hip sag are those at the frames start..end-1 that
\* the repetition occupies in the elbow series, also when an earlier
\* candidate slice was dropped.
HipSliceCoversRepFrames ==
    \A k \in DOMAIN rep_details :
        rep_details[k].hip_slice
            = Slice(raw_hip_angles, segmented_reps[k].start,
                    segmented_reps[k].end)

----------------------------------------------------------------------------
(* Depth and lockout of the returned slices *)

\* the thresholds of the pass whose result was returned
ReturnedDepthThreshold ==
    IF passes = 2 THEN FALLBACK_VALLEY_DEPTH_THRESHOLD
    ELSE VALLEY_DEPTH_THRESHOLD

ReturnedLockout ==
    IF passes = 2 THEN FALLBACK_LOCKOUT_MIN_ANGLE ELSE LOCKOUT_MIN_ANGLE

\* the positions of the list deep_valleys whose frame lies in [start, end)
ValleysWithin(deep_valleys, start, end) ==
    {j \in DOMAIN deep_valleys :
        start <= deep_valleys[j] /\ deep_valleys[j] < end}

\* every candidate slice of the list holds its own deep valley and no other
EachCandidateHoldsItsValley(deep_valleys) ==
    \A i \in DOMAIN deep_valleys :
        LET c == candidate_slice(elbow_angles, deep_valleys, i)
        IN  ValleysWithin(deep_valleys, c.start, c.end) = {i}

\* C24: every slice segment_reps returns holds a value at or below the
\* valley-depth threshold of the pass that produced it (165 primary, 175
\* fallback) and has a maximum at or above that pass's lockout angle (145
\* primary, 120 fallback); every candidate slice of a pass that ran holds
\* exactly the one deep valley it was built for.
SlicesAreDeepAndLockedOut ==
    /\ pc = "seg_returned" =>
           \A k \in DOMAIN reps :
               /\ \E i \in DOMAIN reps[k].vals :
                      reps[k].vals[i] <= ReturnedDepthThreshold
               /\ SeqMax(reps[k].vals) >= ReturnedLockout
               /\ reps[k].vals
                      = Slice(elbow_angles, reps[k].start, reps[k].end)
    /\ passes >= 1 => EachCandidateHoldsItsValley(PrimaryValleys)
    /\ passes = 2 => EachCandidateHoldsItsValley(FallbackValleys)

\* the fallback pass found several valleys and returned a slice that
\* never goes down to the primary depth threshold
ShallowFallbackSlice ==
    /\ pc = "seg_returned"
    /\ passes = 2
    /\ \E k \in DOMAIN reps :
           \A i \in DOMAIN reps[k].vals :
               reps[k].vals[i] > VALLEY_DEPTH_THRESHOLD
    /\ Len(FallbackValleys) >= 2

----------------------------------------------------------------------------
(* Depth and lockout labels *)

\* the minimum and the maximum score_rep_heuristic takes of the repetition
RepMin == py_min(user_rep_angles)

RepMax == py_max(user_rep_angles)

\* score_rep_heuristic returned a result for a repetition with frames
HeuristicReturnedForFrames ==
    /\ HeuristicScored
    /\ user_rep_angles # <<>>
    /\ ~outcome.raised

\* the angles among the given ones at which the depth component adds less
\* than 25 points
RECURSIVE UnderHalfDepthAmong(_)
UnderHalfDepthAmong(angles) ==
    IF angles = {} THEN {}
    ELSE LET a == CHOOSE x \in angles : TRUE
         IN  (IF FloatLess(depth_points(a), FloatOf(25)) THEN {a} ELSE {})
                 \cup UnderHalfDepthAmong(angles \ {a})

\* the angles among the given ones at which the lockout component adds
\* less than 15 points
RECURSIVE UnderHalfLockoutAmong(_)
UnderHalfLockoutAmong(angles) ==
    IF angles = {} THEN {}
    ELSE LET a == CHOOSE x \in angles : TRUE
         IN  (IF FloatLess(lockout_points(a), FloatOf(15)) THEN {a} ELSE {})
                 \cup UnderHalfLockoutAmong(angles \ {a})

UnderHalfDepth == UnderHalfDepthAmong(ScoredAngles)

UnderHalfLockout == UnderHalfLockoutAmong(ScoredAngles)

\* C25: for every non-empty repetition score_rep_heuristic returns a
\* result for, "insufficient depth" is among the labels exactly when the
\* depth component adds less than 25 of its 50 points, which is exactly
\* when the minimum is above 115 degrees; "incomplete lockout" is among
\* them exactly when the lockout component adds less than 15 of its 30
\* points, which is exactly when the maximum is below 145 degrees.  At
\* exactly 115 and 145 neither label is given.
LabelsExactlyUnderHalfCredit ==
    HeuristicReturnedForFrames =>
        /\ "insufficient depth" \in SeqToSet(outcome.errors)
               <=> RepMin \in UnderHalfDepth
        /\ "insufficient depth" \in SeqToSet(outcome.errors)
               <=> RepMin > 115
        /\ "incomplete lockout" \in SeqToSet(outcome.errors)
               <=> RepMax \in UnderHalfLockout
        /\ "incomplete lockout" \in SeqToSet(outcome.errors)
               <=> RepMax < 145

\* a repetition from exactly 115 to exactly 145 degrees was scored
HalfCreditRepScored ==
    /\ HeuristicReturnedForFrames
    /\ RepMin = 115
    /\ RepMax = 145

----------------------------------------------------------------------------
(* References that tie at the smallest distance *)

\* the place of a reference name in lexicographic order
NameRank(name) == IF name = "deep" THEN 1 ELSE 2

\* the references that are compared and lie at the returned distance
TiedReferences ==
    {k \in NonEmptyReferences :
        calculate_dtw_distance(user_rep_angles, golden_library[k].angles)
            = outcome.distance}

\* C26: when several references of the library lie at exactly the
\* smallest distance, evaluate_against_library returns the
\* lexicographically smallest of their names, whatever the order in which
\* the library holds them.
TieReturnsSmallestName ==
    (Evaluated /\ user_rep_angles # <<>> /\ ~outcome.raised
         /\ outcome.name \in RefNames) =>
        \A k \in TiedReferences :
            NameRank(outcome.name) <= NameRank(golden_library[k].name)

----------------------------------------------------------------------------
(* Scale of the shape score *)

\* C27: when evaluate_against_library returns a reference of the library,
\* the shape score blended into its result is calculate_form_score of the
\* returned distance with the max_acceptable_distance that was passed to
\* evaluate_against_library.
ShapeScoreUsesPassedScale ==
    MatchedReference =>
        outcome.score =
            Clamp100(RoundHalfEven(
                calculate_form_score(outcome.distance,
                                     outcome.max_acceptable)
                    + score_rep_heuristic(user_rep_angles).score, 2))

----------------------------------------------------------------------------
(* Release of the pose detector *)

\* run_analysis_pipeline has been left, by a return or by an exception
PipelineLeft == pc \in {"pipe_returned", "raised"}

\* C28: in every run of run_analysis_pipeline that has built a
\* PoseDetector the detector is closed when the function is left, on every
\* exit path; the detector is open while frames are read from it and it is
\* not closed before the function's last step.
DetectorClosedOnEveryExit ==
    /\ (PipelineLeft /\ detector # "none") => detector = "closed"
    /\ pc = "step2" => detector = "open"
    /\ detector = "closed" => pc = "pipe_returned"

----------------------------------------------------------------------------
(* Deletion of the saved upload *)

\* the upload has been written to the upload directory and
\* run_analysis_pipeline is about to run on it
UploadSaved == save_path_of(upload) \in upload_dir /\ pc = "step1"

\* delete_temp_file is registered for the path of the upload
CleanupRegistered ==
    \E k \in DOMAIN background_tasks :
        /\ background_tasks[k].task = "delete_temp_file"
        /\ background_tasks[k].file_path = save_path_of(upload)

\* C29: every upload the /analyze endpoint has saved to the upload
\* directory is eventually scheduled for deletion: whatever the outcome of
\* run_analysis_pipeline, a failure of step 1 included, delete_temp_file
\* gets registered for the saved path.
SavedUploadEventuallyScheduled == UploadSaved ~> CleanupRegistered

----------------------------------------------------------------------------
(* Non-finite samples *)

\* the returned slices that hold a frame whose sample was not finite
SlicesOverGaps ==
    {k \in DOMAIN reps :
        \E i \in reps[k].start..(reps[k].end - 1) :
            ~IsFinite(At(elbow_angles, i))}

\* the value, in the unit of the repaired series, lies between the finite
\* samples nearest to frame i on its two sides, or is the one there is
BetweenFiniteNeighbours(value, i) ==
    LET near == {j \in FiniteIndices(elbow_angles) :
                    \/ j <= i /\ \A h \in FiniteIndices(elbow_angles) :
                                     h <= i => h <= j
                    \/ j >= i /\ \A h \in FiniteIndices(elbow_angles) :
                                     h >= i => h >= j}
        ends == {At(elbow_angles, j) * series_unit(elbow_angles) : j \in near}
    IN  SetMin(ends) <= value /\ value <= SetMax(ends)

\* C30: for a series with non-finite samples segment_reps returns slices
\* of the repaired series: every value of every returned slice is finite
\* and lies between the finite samples nearest to its frame; a series
\* with no finite sample at all, of any length, gives the empty list.
ReturnedSlicesAreRepaired ==
    pc = "seg_returned" =>
        /\ \A k \in DOMAIN reps :
               /\ AllFinite(reps[k].vals)
               /\ \A i \in reps[k].start..(reps[k].end - 1) :
                      BetweenFiniteNeighbours(
                          reps[k].vals[i - reps[k].start + 1], i)
        /\ FiniteIndices(elbow_angles) = {} => reps = <<>>

\* a returned slice holds frames that were lost between finite ones, one
\* of them repaired to a fraction of a degree
SliceOverInteriorGap ==
    /\ pc = "seg_returned"
    /\ GapStarts(elbow_angles) # {}
    /\ \E k \in SlicesOverGaps :
           \E i \in DOMAIN reps[k].vals :
               reps[k].vals[i] % series_unit(elbow_angles) # 0

====
